---- MODULE Spec2Model ----
(***************************************************************************)
(* A model of the CTF deployer's coordination kernel (src/flask_app):      *)
(* the port registry and lease store kept in PostgreSQL (database.py), the *)
(* request handlers /deploy, /stop and /extend (routes.py), the runtime    *)
(* adapter (docker_utils.py), the expiration sweeper (cleanup_manager.py), *)
(* the stale-port maintenance timer and the graceful shutdown (app.py).    *)
(*                                                                         *)
(* Every database statement and every call into the container runtime is  *)
(* one atomic step; a handler is the sequence of its steps, so handlers    *)
(* interleave exactly where the threads of the program can.  Time is a     *)
(* counter of seconds (int(time.time())).                                  *)
(***************************************************************************)
EXTENDS Integers, Sequences, FiniteSets, TLC

(***************************************************************************)
(* Configuration (config.py reads these from the environment; the values   *)
(* here are scaled down to seconds of the model's clock).                  *)
(***************************************************************************)
START_RANGE == 9000
LEAVE_TIME == 2
ADD_TIME == 1
MAX_CONTAINERS_PER_HOUR == 1
RATE_LIMIT_WINDOW == 2
STALE_PORT_MAX_AGE == 1
PORT_ALLOCATION_MAX_ATTEMPTS == 2
CAPTCHA_TTL == 1
MAX_TOTAL_CONTAINERS == 1
MAX_TOTAL_CPU_PERCENT == 200
RESOURCE_CHECK_INTERVAL == 1
CONTAINER_CPU == 100     \* float(CONTAINER_CPU_LIMIT) * 100 of one container
MAX_TOTAL_MEMORY_GB == 2
DB_POOL_MAX == 1         \* connections of pg_pool (DB_POOL_MIN = DB_POOL_MAX)
max_retries == 3         \* execute_query(..., max_retries=3)

(***************************************************************************)
(* Bounds of the model.                                                    *)
(***************************************************************************)
MaxPorts == 2        \* size of the port range
MaxThreads == 2      \* request-handler threads
MaxTime == 3         \* seconds the clock runs after startup
MaxIds == 3          \* runtime handles created in one behaviour
MaxStoreFaults == 1  \* injected store (database) failures in one behaviour
MaxRuntimeFaults == 1 \* injected container-runtime failures in one behaviour
MaxCaptcha == 2      \* CAPTCHA challenges issued in one behaviour
MaxExternal == 1     \* ports of the range bound by outside processes
MaxRequests == 3     \* requests handled in one behaviour
SweepRequests == 2   \* requests handled in one behaviour beside the sweepers
AllocRequests == 3   \* calls of allocate_port in one behaviour
RetryExternal == 2     \* ports the outside may bind while deploy retries
MaxQueryFaults == 4   \* failed attempts of statements in one behaviour
PortRequests == 4     \* calls of allocate_port and release_port by one caller

STOP_RANGE == START_RANGE + MaxPorts
PORT_RANGE == START_RANGE .. (STOP_RANGE - 1)
Threads == 1 .. MaxThreads
Ids == 1 .. MaxIds
NULL == 0
BootTime == 4        \* int(time.time()) at startup, later than any snapshot age

LOOPBACK == "127.0.0.1"
Codes == {"A"}                  \* the codes create_captcha draws
Answers == {"A", "a", "B"}     \* the answers a client types
MathAnswers == {7}              \* the answers of the problems captcha.py draws
MathTyped == {"7", "A"}         \* the answers a client types to a problem
\* CONTAINER_MEMORY_LIMIT, a string of characters: megabytes or gigabytes.
MEM_512M == <<"5", "1", "2", "M">>
MEM_1G == <<"1", "G">>
MemoryLimits == {MEM_512M, MEM_1G}
\* What update_resource_usage may sample: <<CPU percent, memory in MB>>.
QuietUsage == {<<0, 0>>, <<150, 0>>}
QuotaUsage == {<<0, 0>>, <<100, 1536>>, <<150, 0>>, <<0, 2048>>, <<150, 2048>>}
Conns == 1 .. DB_POOL_MAX
BlockedInputs == {{}, {START_RANGE}}   \* blocked_ports arguments of allocate_port

\* Two samples that each exceed one limit: the CPU, or the memory.
MonitorUsage == {<<150, 1024>>, <<100, 2048>>}

VARIABLES
    now,               \* int(time.time())
    port_allocations,  \* table port_allocations: port -> row
    containers,        \* table containers: a set of rows, key id
    ip_requests,       \* table ip_requests: a set of <<ip_address, request_time>>
    handles,           \* the runtime: handle id -> [port, state]
    ext_bound,         \* host ports bound by processes outside the deployer
    next_id,           \* the next handle id the runtime will assign
    store_faults,      \* store failures injected so far
    runtime_faults,    \* runtime failures injected so far
    captcha_cache,     \* ctf_captcha.captcha_cache: id -> [code, expires]
    next_captcha,      \* the next CAPTCHA id
    bypass_captcha,    \* BYPASS_CAPTCHA
    enable_resource_quotas, \* ENABLE_RESOURCE_QUOTAS
    resource_usage,    \* resource_monitor.resource_usage
    pg_pool,           \* database.pg_pool: [pool: idle connections, used]
    connections,       \* per connection: its session and transaction state
    scenario,          \* the workload: who sends requests, and what may fail
    pc,                \* per request thread: the step it is at
    req,               \* per request thread: the handler's local variables
    resp,              \* per request thread: the response just returned
    requests,          \* requests received so far
    sweep_pc,          \* cleanup_manager.cleanup_loop: the step it is at
    sweep_list,        \* expired_containers still to process in this pass
    stale_list,        \* stale_ports still to release in this maintenance run
    shutdown_pc,       \* app.cleanup_all_resources: the step it is at
    shutdown_list,     \* rows read by cleanup_all_containers, still to process
    shutdown_pass      \* 0 running, 1 the signal handler's cleanup, 2 the atexit one

vars == <<now, port_allocations, containers, ip_requests, handles, ext_bound,
          next_id, store_faults, runtime_faults, captcha_cache, next_captcha,
          bypass_captcha, enable_resource_quotas, resource_usage, pg_pool,
          connections, scenario, pc, req, resp, requests, sweep_pc, sweep_list,
          stale_list, shutdown_pc, shutdown_list, shutdown_pass>>

store_vars == <<port_allocations, containers, ip_requests>>
runtime_vars == <<handles, ext_bound, next_id>>
config_vars == <<bypass_captcha, enable_resource_quotas, scenario>>
captcha_vars == <<captcha_cache, next_captcha>>
pool_vars == <<pg_pool, connections>>
other_vars == <<config_vars, captcha_vars, resource_usage, pool_vars>>
sweep_vars == <<sweep_pc, sweep_list>>
shutdown_vars == <<shutdown_pc, shutdown_list, shutdown_pass>>

(***************************************************************************)
(* Pure helpers.                                                           *)
(***************************************************************************)
Min(S) == CHOOSE x \in S : \A y \in S : x <= y

FreeRow == [allocated |-> FALSE, container_id |-> NULL, allocated_time |-> NULL]

\* The SELECT with ORDER BY port DESC: the highest free port.
select_highest_free_port(pa, blocked) ==
    LET free == {p \in PORT_RANGE : ~pa[p].allocated /\ p \notin blocked}
    IN  IF free = {} THEN NULL ELSE CHOOSE x \in free : \A y \in free : y <= x

\* The SELECT of allocate_port: the lowest port with allocated = FALSE that is
\* not blocked (ORDER BY port LIMIT 1), or NULL.
SelectFreePort(pa, blocked) ==
    LET free == {p \in PORT_RANGE : ~pa[p].allocated /\ p \notin blocked}
    IN  IF free = {} THEN NULL ELSE Min(free)

\* The UPDATE of allocate_port.
MarkAllocated(pa, port, container_id, t) ==
    [pa EXCEPT ![port] = [allocated |-> TRUE, container_id |-> container_id,
                          allocated_time |-> t]]

\* An UPDATE that only sets allocated = FALSE.
mark_released_keeps_time(pa, port) ==
    IF port \in PORT_RANGE THEN [pa EXCEPT ![port].allocated = FALSE] ELSE pa

\* The UPDATE of release_port.
MarkReleased(pa, port) ==
    IF port \in PORT_RANGE THEN [pa EXCEPT ![port] = FreeRow] ELSE pa

\* check_ip_rate_limit, when the store answers.
request_count(ip, t) ==
    Cardinality({e \in ip_requests : e[1] = ip /\ e[2] > t - RATE_LIMIT_WINDOW})

active_count(ip) == Cardinality({c \in containers : c.ip_address = ip})

check_ip_rate_limit(ip, t) ==
    IF ip = LOOPBACK
    THEN FALSE
    ELSE request_count(ip, t) + active_count(ip) >= MAX_CONTAINERS_PER_HOUR

\* A host port is in use when a running handle publishes it or an outside
\* process holds it: the runtime then answers "address already in use".
PortBound(p) ==
    \/ p \in ext_bound
    \/ \E h \in DOMAIN handles : handles[h].port = p /\ handles[h].state = "running"

\* client.containers.get(id).remove(force=True), when the runtime answers;
\* NotFound leaves the runtime as it is.
RemoveHandle(hs, id) == [h \in (DOMAIN hs) \ {id} |-> hs[h]]

StoreCanFail == store_faults < scenario.store_faults
RuntimeCanFail == runtime_faults < scenario.runtime_faults
StoreFails == store_faults' = store_faults + 1
RuntimeFails == runtime_faults' = runtime_faults + 1
fault_vars == <<store_faults, runtime_faults>>

NoReq == [kind |-> "none", user_uuid |-> "", ip |-> "", json |-> FALSE,
          quota |-> "none",
          captcha_id |-> NULL, captcha_answer |-> "",
          port |-> NULL, blocked |-> {}, attempt_i |-> 0, attempt |-> 0,
          id |-> NULL, db_port |-> NULL, expiration_time |-> NULL,
          now_ts |-> NULL, conn |-> NULL, after |-> "none",
          di_used |-> 0, captcha_data |-> NULL,
          query |-> "none", tries |-> 0, last_error |-> "none",
          usage |-> [containers |-> -1, cpu |-> -1, memory |-> -1]]

\* A request is handed to the lowest idle worker thread (the workers are
\* interchangeable), while the request budget lasts.
Idle(t) ==
    /\ t \in scenario.threads
    /\ pc[t] = "idle"
    /\ \A u \in scenario.threads : u < t => pc[u] # "idle"
    /\ requests < scenario.requests

\* The handler returns response r; the thread is "done" until it is reused.
Reply(t, r) == /\ pc' = [pc EXCEPT ![t] = "done"]
               /\ resp' = [resp EXCEPT ![t] = r]

Goto(t, l) == /\ pc' = [pc EXCEPT ![t] = l]
              /\ UNCHANGED resp

SetReq(t, r) == req' = [req EXCEPT ![t] = r]

(***************************************************************************)
(* POST /deploy (routes.deploy_container).                                 *)
(***************************************************************************)
DeployPcs == {"rate", "captcha", "dup", "quota", "alloc", "start", "rel_inuse",
              "rel_api"}

\* Deploys that have not yet obtained their handle from the runtime.
PendingDeploys == {t \in Threads : pc[t] \in DeployPcs}

\* 1) the user_uuid cookie; the request's inputs are fixed here.
deploy_container_begin(t) ==
    /\ Idle(t)
    /\ next_id + Cardinality(PendingDeploys) <= MaxIds
    /\ \E cl \in scenario.clients, json \in scenario.bodies,
          cid \in {NULL} \cup (IF bypass_captcha THEN {} ELSE 1 .. (next_captcha - 1)),
          ans \in {""} \cup (IF bypass_captcha THEN {} ELSE Answers) :
          /\ SetReq(t, [NoReq EXCEPT !.kind = "deploy", !.user_uuid = cl[1],
                                     !.ip = cl[2], !.json = json,
                                     !.captcha_id = cid, !.captcha_answer = ans])
          /\ IF cl[1] = "" THEN Reply(t, "SESSION_ERROR") ELSE Goto(t, "rate")
    /\ UNCHANGED <<now, store_vars, runtime_vars, fault_vars, other_vars,
                   sweep_vars, stale_list, shutdown_vars>>
    /\ requests' = requests + 1

\* Step 2 without its check: every request goes on to the CAPTCHA.  Put in
\* place of deploy_container_rate_limit it shows what C8 owes to the rate
\* limit coming first.
rate_limit_skipped(t) ==
    /\ pc[t] = "rate"
    /\ Goto(t, "captcha")
    /\ UNCHANGED <<now, store_vars, runtime_vars, fault_vars, other_vars, req,
                   sweep_vars, stale_list, shutdown_vars, requests>>

\* Step 2 with a prune that has lost its WHERE clause: DELETE FROM
\* ip_requests.
rate_limit_prunes_all(t) ==
    /\ pc[t] = "rate"
    /\ \/ /\ req[t].ip # LOOPBACK
          /\ StoreCanFail /\ StoreFails
          /\ Goto(t, "captcha")
          /\ UNCHANGED ip_requests
       \/ /\ UNCHANGED store_faults
          /\ \E prune \in BOOLEAN :
                ip_requests' =
                    IF prune /\ req[t].ip # LOOPBACK THEN {} ELSE ip_requests
          /\ IF check_ip_rate_limit(req[t].ip, now)
             THEN Reply(t, "RATE_LIMITED")
             ELSE Goto(t, "captcha")
    /\ UNCHANGED <<now, port_allocations, containers, runtime_vars, runtime_faults,
                   other_vars, req, sweep_vars, stale_list, shutdown_vars, requests>>

\* Step 2 with an except clause that refuses: a store error inside
\* check_ip_rate_limit counts as a reached limit.
rate_limit_fails_closed(t) ==
    /\ pc[t] = "rate"
    /\ \/ /\ req[t].ip # LOOPBACK
          /\ StoreCanFail /\ StoreFails
          /\ Reply(t, "RATE_LIMITED")
          /\ UNCHANGED ip_requests
       \/ /\ UNCHANGED store_faults
          /\ \E prune \in BOOLEAN :
                ip_requests' =
                    IF prune /\ req[t].ip # LOOPBACK
                    THEN {e \in ip_requests : e[2] > now - RATE_LIMIT_WINDOW}
                    ELSE ip_requests
          /\ IF check_ip_rate_limit(req[t].ip, now)
             THEN Reply(t, "RATE_LIMITED")
             ELSE Goto(t, "captcha")
    /\ UNCHANGED <<now, port_allocations, containers, runtime_vars, runtime_faults,
                   other_vars, req, sweep_vars, stale_list, shutdown_vars, requests>>

\* 2) check_ip_rate_limit: two COUNTs, sometimes the prune of old events;
\* any store error inside it lets the request through.
deploy_container_rate_limit(t) ==
    /\ pc[t] = "rate"
    /\ \/ /\ req[t].ip # LOOPBACK
          /\ StoreCanFail /\ StoreFails
          /\ Goto(t, "captcha")
          /\ UNCHANGED ip_requests
       \/ /\ UNCHANGED store_faults
          /\ \E prune \in BOOLEAN :
                ip_requests' =
                    IF prune /\ req[t].ip # LOOPBACK
                    THEN {e \in ip_requests : e[2] > now - RATE_LIMIT_WINDOW}
                    ELSE ip_requests
          /\ IF check_ip_rate_limit(req[t].ip, now)
             THEN Reply(t, "RATE_LIMITED")
             ELSE Goto(t, "captcha")
    /\ UNCHANGED <<now, port_allocations, containers, runtime_vars, runtime_faults,
                   other_vars, req, sweep_vars, stale_list, shutdown_vars, requests>>

\* str.rstrip(ch): the string without its trailing characters ch.
RECURSIVE rstrip(_, _)
rstrip(str, ch) ==
    IF str # <<>> /\ str[Len(str)] = ch
    THEN rstrip(SubSeq(str, 1, Len(str) - 1), ch)
    ELSE str

Digits == <<"0", "1", "2", "3", "4", "5", "6", "7", "8", "9">>
DigitValue(ch) == (CHOOSE i \in DOMAIN Digits : Digits[i] = ch) - 1

\* float(str) on the strings of the model: a string of digits is a number,
\* anything else raises ValueError.
float_raises(str) ==
    str = <<>> \/ \E i \in DOMAIN str : \A d \in DOMAIN Digits : Digits[d] # str[i]

RECURSIVE float(_)
float(str) ==
    IF str = <<>> THEN 0
    ELSE 10 * float(SubSeq(str, 1, Len(str) - 1)) + DigitValue(str[Len(str)])

\* ctf_captcha._clean_expired
clean_expired(cache, t) ==
    [c \in {c \in DOMAIN cache : ~(cache[c].expires < t)} |-> cache[c]]

\* str(user_answer).strip().upper() on the answers of the model.
StripUpper(ans) == IF ans = "a" THEN "A" ELSE ans

\* ctf_captcha.validate_captcha: the id is still cached and the normalised
\* answer equals the code.
validate_captcha(cache, cid, ans, t) ==
    /\ cid \in DOMAIN clean_expired(cache, t)
    /\ StripUpper(ans) = cache[cid].code

\* ctf_captcha.create_captcha (GET /get_captcha): clean, draw a code, cache it.
create_captcha ==
    /\ scenario.captcha_module = "ctf_captcha"
    /\ ~bypass_captcha
    /\ next_captcha <= MaxCaptcha
    /\ \E code \in Codes :
          captcha_cache' =
              [c \in DOMAIN clean_expired(captcha_cache, now) \cup {next_captcha} |->
                  IF c = next_captcha
                  THEN [code |-> code, expires |-> now + CAPTCHA_TTL]
                  ELSE captcha_cache[c]]
    /\ next_captcha' = next_captcha + 1
    /\ UNCHANGED <<now, store_vars, runtime_vars, fault_vars, config_vars,
                   resource_usage, pool_vars, pc, req, resp, requests, sweep_vars,
                   stale_list, shutdown_vars>>

\* The cache after validate_captcha: expired ids cleaned, the id popped.
captcha_consumed(cache, cid, t) ==
    LET c1 == clean_expired(cache, t)
    IN  [c \in (DOMAIN c1) \ {cid} |-> c1[c]]

\* 3) the JSON body and the CAPTCHA.
deploy_container_captcha(t) ==
    /\ pc[t] = "captcha"
    /\ IF ~req[t].json
       THEN Reply(t, "INVALID_REQUEST") /\ UNCHANGED captcha_cache
       ELSE IF bypass_captcha
       THEN Goto(t, "dup") /\ UNCHANGED captcha_cache
       ELSE IF req[t].captcha_id = NULL \/ req[t].captcha_answer = ""
       THEN Reply(t, "CAPTCHA_REQUIRED") /\ UNCHANGED captcha_cache
       ELSE /\ captcha_cache' = captcha_consumed(captcha_cache, req[t].captcha_id, now)
            /\ IF validate_captcha(captcha_cache, req[t].captcha_id,
                                   req[t].captcha_answer, now)
               THEN Goto(t, "dup")
               ELSE Reply(t, "CAPTCHA_INVALID")
    /\ UNCHANGED <<now, store_vars, runtime_vars, fault_vars, next_captcha,
                   config_vars, resource_usage, pool_vars, req, sweep_vars,
                   stale_list, shutdown_vars, requests>>

(***************************************************************************)
(* The two helpers that run a statement of the store, attempt by attempt.  *)
(* A statement is named after the function of database.py that issues it.  *)
(***************************************************************************)
\* get_container_by_uuid runs its SELECT with execute_query; store_container,
\* record_ip_request and the DELETE of remove_container_from_db run with
\* execute_insert.
QueryStatements == {"get_container_by_uuid"}
InsertStatements == {"store_container", "record_ip_request",
                     "remove_container_from_db"}
\* What an attempt meets: success, a connection-level error
\* (OperationalError, InterfaceError) or a logical error (IntegrityError).
Outcomes == {"ok", "OperationalError", "IntegrityError"}

statement_begin(t) ==
    /\ Idle(t)
    /\ \E q \in QueryStatements \cup InsertStatements :
          SetReq(t, [NoReq EXCEPT !.kind = "query", !.query = q])
    /\ Goto(t, "execute")
    /\ requests' = requests + 1
    /\ UNCHANGED <<now, store_vars, runtime_vars, fault_vars, other_vars,
                   sweep_vars, stale_list, shutdown_vars>>

\* execute_query: one pass of "while retry_count <= max_retries".
execute_query(t) ==
    /\ pc[t] = "execute"
    /\ req[t].query \in QueryStatements
    /\ \E outcome \in Outcomes :
          IF outcome = "ok"
          THEN /\ SetReq(t, [req[t] EXCEPT !.tries = @ + 1])
               /\ Reply(t, "OK")
               /\ UNCHANGED store_faults
          ELSE /\ StoreCanFail /\ StoreFails
               /\ IF outcome = "OperationalError"
                  THEN /\ SetReq(t, [req[t] EXCEPT !.tries = @ + 1,
                                                    !.attempt = @ + 1,
                                                    !.last_error = outcome])
                       /\ IF req[t].attempt + 1 <= max_retries
                          THEN Goto(t, "execute")
                          ELSE Reply(t, "DB_ERROR")
                  ELSE /\ SetReq(t, [req[t] EXCEPT !.tries = @ + 1,
                                                    !.last_error = outcome])
                       /\ Reply(t, "DB_ERROR")
    /\ UNCHANGED <<now, store_vars, runtime_vars, runtime_faults, other_vars,
                   sweep_vars, stale_list, shutdown_vars, requests>>

\* execute_insert: one attempt; every exception is rolled back and raised.
execute_insert(t) ==
    /\ pc[t] = "execute"
    /\ req[t].query \in InsertStatements
    /\ \E outcome \in Outcomes :
          IF outcome = "ok"
          THEN /\ SetReq(t, [req[t] EXCEPT !.tries = @ + 1])
               /\ Reply(t, "OK")
               /\ UNCHANGED store_faults
          ELSE /\ StoreCanFail /\ StoreFails
               /\ SetReq(t, [req[t] EXCEPT !.tries = @ + 1, !.last_error = outcome])
               /\ Reply(t, "DB_ERROR")
    /\ UNCHANGED <<now, store_vars, runtime_vars, runtime_faults, other_vars,
                   sweep_vars, stale_list, shutdown_vars, requests>>

(***************************************************************************)
(* validate_captcha statement by statement, as the worker threads run it   *)
(* on the cache they share without a lock.  scenario.captcha_module is the *)
(* module that serves the CAPTCHA: ctf_captcha (the one routes imports) or *)
(* captcha (math problems).                                                *)
(***************************************************************************)
\* captcha.create_captcha: the answer of a math problem is cached; nothing
\* is cleaned.
captcha_create_captcha ==
    /\ scenario.captcha_module = "captcha"
    /\ ~bypass_captcha
    /\ next_captcha <= MaxCaptcha
    /\ \E answer \in MathAnswers :
          captcha_cache' =
              [c \in DOMAIN captcha_cache \cup {next_captcha} |->
                  IF c = next_captcha
                  THEN [code |-> answer, expires |-> now + CAPTCHA_TTL]
                  ELSE captcha_cache[c]]
    /\ next_captcha' = next_captcha + 1
    /\ UNCHANGED <<now, store_vars, runtime_vars, fault_vars, config_vars,
                   resource_usage, pool_vars, pc, req, resp, requests, sweep_vars,
                   stale_list, shutdown_vars>>

\* The call: the clock is read and the iteration over the items of the
\* cache starts; the iterator remembers the size of the dict (di_used).
validate_captcha_begin(t) ==
    /\ Idle(t)
    /\ ~bypass_captcha
    /\ \E cid \in 1 .. (next_captcha - 1),
          ans \in (IF scenario.captcha_module = "captcha" THEN MathTyped ELSE Answers) :
          SetReq(t, [NoReq EXCEPT !.kind = "verify", !.captcha_id = cid,
                                  !.captcha_answer = ans, !.now_ts = now,
                                  !.di_used = Cardinality(DOMAIN captcha_cache)])
    /\ Goto(t, "v_clean")
    /\ requests' = requests + 1
    /\ UNCHANGED <<now, store_vars, runtime_vars, fault_vars, other_vars,
                   sweep_vars, stale_list, shutdown_vars>>

\* The iteration goes on and the expired keys are popped.  A dict whose size
\* changed since the iterator was made raises RuntimeError at the next item,
\* which leaves validate_captcha; an iterator over an empty dict saw no key.
validate_captcha_clean(t) ==
    /\ pc[t] = "v_clean"
    /\ IF req[t].di_used > 0 /\ Cardinality(DOMAIN captcha_cache) # req[t].di_used
       THEN Reply(t, "UNHANDLED_ERROR") /\ UNCHANGED captcha_cache
       ELSE /\ captcha_cache' = IF req[t].di_used = 0 THEN captcha_cache
                                ELSE clean_expired(captcha_cache, req[t].now_ts)
            /\ Goto(t, IF scenario.captcha_module = "captcha" THEN "m_check"
                                                               ELSE "v_pop")
    /\ UNCHANGED <<now, store_vars, runtime_vars, fault_vars, next_captcha,
                   config_vars, resource_usage, pool_vars, req, sweep_vars,
                   stale_list, shutdown_vars, requests>>

\* ctf_captcha: data = captcha_cache.pop(captcha_id, None), one operation of
\* the dict, and the comparison.
validate_captcha_pop(t) ==
    /\ pc[t] = "v_pop"
    /\ LET cid == req[t].captcha_id
       IN  /\ captcha_cache' = [c \in DOMAIN captcha_cache \ {cid} |-> captcha_cache[c]]
           /\ Reply(t, IF /\ cid \in DOMAIN captcha_cache
                          /\ StripUpper(req[t].captcha_answer) = captcha_cache[cid].code
                       THEN "VERIFY_TRUE" ELSE "VERIFY_FALSE")
    /\ UNCHANGED <<now, store_vars, runtime_vars, fault_vars, next_captcha,
                   config_vars, resource_usage, pool_vars, req, sweep_vars,
                   stale_list, shutdown_vars, requests>>

\* captcha: if captcha_id not in captcha_cache: return False
captcha_validate_check(t) ==
    /\ pc[t] = "m_check"
    /\ IF req[t].captcha_id \notin DOMAIN captcha_cache
       THEN Reply(t, "VERIFY_FALSE")
       ELSE Goto(t, "m_read")
    /\ UNCHANGED <<now, store_vars, runtime_vars, fault_vars, other_vars, req,
                   sweep_vars, stale_list, shutdown_vars, requests>>

\* captcha: captcha_data = captcha_cache[captcha_id] (KeyError when the id is
\* gone by now) and correct_answer = captcha_data['answer'].
captcha_validate_read(t) ==
    /\ pc[t] = "m_read"
    /\ IF req[t].captcha_id \notin DOMAIN captcha_cache
       THEN Reply(t, "UNHANDLED_ERROR") /\ UNCHANGED req
       ELSE /\ SetReq(t, [req[t] EXCEPT !.captcha_data =
                                          captcha_cache[req[t].captcha_id].code])
            /\ Goto(t, "m_pop")
    /\ UNCHANGED <<now, store_vars, runtime_vars, fault_vars, other_vars,
                   sweep_vars, stale_list, shutdown_vars, requests>>

\* try: int(user_answer) == correct_answer, except ValueError: False.
int_equals(user_answer, correct_answer) ==
    /\ ~float_raises(<<user_answer>>)
    /\ float(<<user_answer>>) = correct_answer

\* captcha: captcha_cache.pop(captcha_id, None) and the comparison.
captcha_validate_pop(t) ==
    /\ pc[t] = "m_pop"
    /\ captcha_cache' = [c \in DOMAIN captcha_cache \ {req[t].captcha_id} |->
                            captcha_cache[c]]
    /\ Reply(t, IF int_equals(req[t].captcha_answer, req[t].captcha_data)
                THEN "VERIFY_TRUE" ELSE "VERIFY_FALSE")
    /\ UNCHANGED <<now, store_vars, runtime_vars, fault_vars, next_captcha,
                   config_vars, resource_usage, pool_vars, req, sweep_vars,
                   stale_list, shutdown_vars, requests>>

validate_captcha_call(t) ==
    \/ validate_captcha_begin(t)
    \/ validate_captcha_clean(t)
    \/ validate_captcha_pop(t)
    \/ captcha_validate_check(t)
    \/ captcha_validate_read(t)
    \/ captcha_validate_pop(t)

\* 4) get_container_by_uuid.
deploy_container_duplicate(t) ==
    /\ pc[t] = "dup"
    /\ \/ /\ StoreCanFail /\ StoreFails
          /\ Reply(t, "UNHANDLED_ERROR")
       \/ /\ UNCHANGED store_faults
          /\ IF \E c \in containers : c.user_uuid = req[t].user_uuid
             THEN Reply(t, "DUPLICATE")
             ELSE Goto(t, "quota")
    /\ UNCHANGED <<now, store_vars, runtime_vars, runtime_faults, other_vars, req,
                   sweep_vars, stale_list, shutdown_vars, requests>>

\* resource_monitor.update_resource_usage: the count of the rows of containers
\* and the CPU and the memory the runtime reports, written under
\* resource_lock.  The memory of the snapshot is kept in MB, so that the
\* comparisons in GB of the code are exact on integers.
UsageNow(cpu, mem) == [containers |-> Cardinality(containers), cpu |-> cpu,
                       memory |-> mem, last_updated |-> now]

update_resource_usage ==
    /\ enable_resource_quotas
    /\ shutdown_pc # "exited"
    /\ \E u \in scenario.usage : resource_usage' = UsageNow(u[1], u[2])
    /\ UNCHANGED <<now, store_vars, runtime_vars, fault_vars, config_vars,
                   captcha_vars, pool_vars, pc, req, resp, requests, sweep_vars,
                   stale_list, shutdown_vars>>

\* resource_monitor.check_resource_availability on a snapshot: the first
\* limit that the snapshot plus the new container exceeds, or "none".
\* container_memory is float(...) / 1024.0 GB, compared here in MB.
rejected_resource(usage, container_cpu, container_memory_mb) ==
    IF usage.containers >= MAX_TOTAL_CONTAINERS THEN "containers"
    ELSE IF usage.cpu + container_cpu > MAX_TOTAL_CPU_PERCENT THEN "cpu"
    ELSE IF usage.memory + container_memory_mb > MAX_TOTAL_MEMORY_GB * 1024
         THEN "memory"
    ELSE "none"

check_resource_availability(usage, container_cpu, container_memory_mb) ==
    rejected_resource(usage, container_cpu, container_memory_mb) = "none"

\* 5) the quota check: container_memory is parsed from CONTAINER_MEMORY_LIMIT
\* (a ValueError reaches the outer except: 500); a snapshot older than
\* 3 * RESOURCE_CHECK_INTERVAL is refreshed first.  update_resource_usage
\* catches every error of its COUNT query and of the runtime's container
\* list, sets status to "error" and leaves the snapshot as it was; the check
\* then reads that snapshot.
deploy_container_quota(t) ==
    /\ pc[t] = "quota"
    /\ IF ~enable_resource_quotas
       THEN Goto(t, "alloc") /\ UNCHANGED <<resource_usage, req, fault_vars>>
       ELSE IF float_raises(rstrip(scenario.memory_limit, "M"))
       THEN Reply(t, "UNHANDLED_ERROR") /\ UNCHANGED <<resource_usage, req, fault_vars>>
       ELSE \E u \in scenario.usage :
               LET container_memory_mb == float(rstrip(scenario.memory_limit, "M"))
                   too_old == resource_usage.last_updated
                                 < now - RESOURCE_CHECK_INTERVAL * 3
               IN  /\ \/ /\ UNCHANGED fault_vars
                         /\ resource_usage' =
                               IF too_old THEN UsageNow(u[1], u[2]) ELSE resource_usage
                      \/ /\ too_old
                         /\ StoreCanFail /\ StoreFails
                         /\ UNCHANGED <<resource_usage, runtime_faults>>
                      \/ /\ too_old
                         /\ RuntimeCanFail /\ RuntimeFails
                         /\ UNCHANGED <<resource_usage, store_faults>>
                   /\ IF check_resource_availability(resource_usage', CONTAINER_CPU,
                                                     container_memory_mb)
                      THEN Goto(t, "alloc") /\ UNCHANGED req
                      ELSE /\ Reply(t, "QUOTA_EXCEEDED")
                           /\ SetReq(t, [req[t] EXCEPT !.quota =
                                 rejected_resource(resource_usage', CONTAINER_CPU,
                                                   container_memory_mb)])
    /\ UNCHANGED <<now, store_vars, runtime_vars, config_vars,
                   captcha_vars, pool_vars, sweep_vars, stale_list,
                   shutdown_vars, requests>>

\* resource_monitor.check_resource_availability read by read.
\* get_resource_usage returns dict(resource_usage) made under resource_lock:
\* a copy of the top level only, so last_updated is the caller's own while
\* "containers", "cpu" and "memory" stay the dictionaries the writers
\* update in place; each usage[...]["current"] below is read without the
\* lock at the moment of its comparison.  A copy found too old is renewed by
\* update_resource_usage on the caller's thread, as in deploy_container_quota.
check_resource_availability_begin(t) ==
    /\ Idle(t)
    /\ enable_resource_quotas
    /\ SetReq(t, [NoReq EXCEPT !.kind = "check"])
    /\ Goto(t, "q_containers")
    /\ LET too_old == resource_usage.last_updated
                         < now - RESOURCE_CHECK_INTERVAL * 3
       IN  \/ /\ UNCHANGED fault_vars
              /\ \E u \in scenario.usage :
                    resource_usage' =
                        IF too_old THEN UsageNow(u[1], u[2]) ELSE resource_usage
           \/ /\ too_old
              /\ StoreCanFail /\ StoreFails
              /\ UNCHANGED <<resource_usage, runtime_faults>>
    /\ requests' = requests + 1
    /\ UNCHANGED <<now, store_vars, runtime_vars, config_vars, captcha_vars,
                   pool_vars, sweep_vars, stale_list, shutdown_vars>>

\* if usage["containers"]["current"] >= MAX_TOTAL_CONTAINERS
check_resource_availability_containers(t) ==
    /\ pc[t] = "q_containers"
    /\ SetReq(t, [req[t] EXCEPT !.usage.containers = resource_usage.containers])
    /\ IF resource_usage.containers >= MAX_TOTAL_CONTAINERS
       THEN Reply(t, "QUOTA_EXCEEDED")
       ELSE Goto(t, "q_cpu")
    /\ UNCHANGED <<now, store_vars, runtime_vars, fault_vars, other_vars,
                   sweep_vars, stale_list, shutdown_vars, requests>>

\* if usage["cpu"]["current"] + container_cpu > MAX_TOTAL_CPU_PERCENT
check_resource_availability_cpu(t) ==
    /\ pc[t] = "q_cpu"
    /\ SetReq(t, [req[t] EXCEPT !.usage.cpu = resource_usage.cpu])
    /\ IF resource_usage.cpu + CONTAINER_CPU > MAX_TOTAL_CPU_PERCENT
       THEN Reply(t, "QUOTA_EXCEEDED")
       ELSE Goto(t, "q_memory")
    /\ UNCHANGED <<now, store_vars, runtime_vars, fault_vars, other_vars,
                   sweep_vars, stale_list, shutdown_vars, requests>>

\* if usage["memory"]["current"] + container_memory > MAX_TOTAL_MEMORY_GB;
\* otherwise (True, "Resources available").
check_resource_availability_memory(t) ==
    /\ pc[t] = "q_memory"
    /\ SetReq(t, [req[t] EXCEPT !.usage.memory = resource_usage.memory])
    /\ IF resource_usage.memory + float(rstrip(scenario.memory_limit, "M"))
            > MAX_TOTAL_MEMORY_GB * 1024
       THEN Reply(t, "QUOTA_EXCEEDED")
       ELSE Reply(t, "OK")
    /\ UNCHANGED <<now, store_vars, runtime_vars, fault_vars, other_vars,
                   sweep_vars, stale_list, shutdown_vars, requests>>

check_resource_availability_call(t) ==
    \/ check_resource_availability_begin(t)
    \/ check_resource_availability_containers(t)
    \/ check_resource_availability_cpu(t)
    \/ check_resource_availability_memory(t)

\* One pass of allocate_port's while loop, called with container_id=None:
\* SELECT ... FOR UPDATE SKIP LOCKED, UPDATE, COMMIT as one transaction on a
\* connection of its own (AllocSpec below takes the transaction apart).  A
\* pass without a row or with a store error is retried; after
\* PORT_ALLOCATION_MAX_ATTEMPTS passes allocate_port returns None.
deploy_container_allocate(t) ==
    /\ pc[t] = "alloc"
    /\ LET p == SelectFreePort(port_allocations, req[t].blocked)
           retry == /\ UNCHANGED port_allocations
                    /\ SetReq(t, [req[t] EXCEPT !.attempt = @ + 1])
                    /\ IF req[t].attempt + 1 >= PORT_ALLOCATION_MAX_ATTEMPTS
                       THEN Reply(t, "NO_PORTS")
                       ELSE Goto(t, "alloc")
       IN  \/ /\ p # NULL
              /\ port_allocations' = MarkAllocated(port_allocations, p, NULL, now)
              /\ SetReq(t, [req[t] EXCEPT !.port = p, !.attempt = 0])
              /\ Goto(t, "start")
              /\ UNCHANGED store_faults
           \/ /\ p = NULL
              /\ retry
              /\ UNCHANGED store_faults
           \/ /\ StoreCanFail /\ StoreFails
              /\ retry
    /\ UNCHANGED <<now, containers, ip_requests, runtime_vars, runtime_faults,
                   other_vars, sweep_vars, stale_list, shutdown_vars, requests>>

\* containers.create has registered a handle that was never started.
LeavesCreated(t) ==
    /\ next_id <= MaxIds
    /\ handles' = [h \in DOMAIN handles \cup {next_id} |->
                      IF h = next_id
                      THEN [port |-> req[t].port, state |-> "created"]
                      ELSE handles[h]]
    /\ next_id' = next_id + 1

\* docker_utils.create_and_start_container and the except clauses around it.
\* A start that raises APIError is followed by container.remove(force=True),
\* whose own error is only logged; a start that raises anything else passes
\* no except clause of create_and_start_container.
deploy_container_start(t) ==
    /\ pc[t] = "start"
    /\ IF req[t].id # NULL /\ req[t].id \in DOMAIN handles
       THEN \* the name is taken by the handle an earlier attempt of this
            \* request left: create answers 409 Conflict, an APIError
            /\ Goto(t, "rel_api")
            /\ UNCHANGED <<handles, next_id, req, runtime_faults>>
       ELSE \/ \* created and started
               /\ ~PortBound(req[t].port)
               /\ next_id <= MaxIds
               /\ handles' = [h \in DOMAIN handles \cup {next_id} |->
                                 IF h = next_id
                                 THEN [port |-> req[t].port, state |-> "running"]
                                 ELSE handles[h]]
               /\ next_id' = next_id + 1
               /\ SetReq(t, [req[t] EXCEPT !.id = next_id])
               /\ Goto(t, "record")
               /\ UNCHANGED runtime_faults
            \/ \* start fails, "address already in use"; the partial handle
               \* is removed
               /\ PortBound(req[t].port)
               /\ Goto(t, "rel_inuse")
               /\ UNCHANGED <<handles, next_id, req, runtime_faults>>
            \/ \* "address already in use", and the removal of the partial
               \* handle fails
               /\ PortBound(req[t].port)
               /\ RuntimeCanFail /\ RuntimeFails
               /\ LeavesCreated(t)
               /\ SetReq(t, [req[t] EXCEPT !.id = next_id])
               /\ Goto(t, "rel_inuse")
            \/ \* another APIError
               /\ RuntimeCanFail /\ RuntimeFails
               /\ Goto(t, "rel_api")
               /\ UNCHANGED <<handles, next_id, req>>
            \/ \* an exception of create that is no APIError: the outer
               \* except answers 500
               /\ RuntimeCanFail /\ RuntimeFails
               /\ Reply(t, "UNHANDLED_ERROR")
               /\ UNCHANGED <<handles, next_id, req>>
            \/ \* an exception of start that is no APIError: the handle stays
               /\ RuntimeCanFail /\ RuntimeFails
               /\ LeavesCreated(t)
               /\ Reply(t, "UNHANDLED_ERROR")
               /\ UNCHANGED req
    /\ UNCHANGED <<now, store_vars, ext_bound, store_faults, other_vars,
                   sweep_vars, stale_list, shutdown_vars, requests>>

\* The "address already in use" branch without its release_port: the
\* rejected port is blocked but stays allocated.
release_in_use_keeps_port(t) ==
    /\ pc[t] = "rel_inuse"
    /\ SetReq(t, [req[t] EXCEPT !.blocked = @ \cup {req[t].port},
                                !.attempt_i = @ + 1])
    /\ IF req[t].attempt_i + 1 >= PORT_ALLOCATION_MAX_ATTEMPTS
       THEN Reply(t, "PORTS_FAILED")
       ELSE Goto(t, "alloc")
    /\ UNCHANGED <<now, store_vars, runtime_vars, fault_vars,
                   other_vars, sweep_vars, stale_list, shutdown_vars, requests>>

\* release_port: the UPDATE, or False when the store fails.
\* "address already in use": release, block the port, next attempt_i.
deploy_container_release_in_use(t) ==
    /\ pc[t] = "rel_inuse"
    /\ \/ /\ UNCHANGED store_faults
          /\ port_allocations' = MarkReleased(port_allocations, req[t].port)
       \/ /\ StoreCanFail /\ StoreFails
          /\ UNCHANGED port_allocations
    /\ SetReq(t, [req[t] EXCEPT !.blocked = @ \cup {req[t].port},
                                !.attempt_i = @ + 1])
    /\ IF req[t].attempt_i + 1 >= PORT_ALLOCATION_MAX_ATTEMPTS
       THEN Reply(t, "PORTS_FAILED")
       ELSE Goto(t, "alloc")
    /\ UNCHANGED <<now, containers, ip_requests, runtime_vars, runtime_faults,
                   other_vars, sweep_vars, stale_list, shutdown_vars, requests>>

\* any other APIError: release the port and answer 500.
deploy_container_release_api_error(t) ==
    /\ pc[t] = "rel_api"
    /\ \/ /\ UNCHANGED store_faults
          /\ port_allocations' = MarkReleased(port_allocations, req[t].port)
       \/ /\ StoreCanFail /\ StoreFails
          /\ UNCHANGED port_allocations
    /\ Reply(t, "DOCKER_ERROR")
    /\ UNCHANGED <<now, containers, ip_requests, runtime_vars, runtime_faults,
                   other_vars, req, sweep_vars, stale_list, shutdown_vars, requests>>

\* 7) record_ip_request: a duplicate key or a store error is ignored; then
\* now_ts = int(time.time()).
deploy_container_record(t) ==
    /\ pc[t] = "record"
    /\ \/ /\ UNCHANGED store_faults
          /\ ip_requests' = ip_requests \cup {<<req[t].ip, now>>}
       \/ /\ StoreCanFail /\ StoreFails
          /\ UNCHANGED ip_requests
    /\ SetReq(t, [req[t] EXCEPT !.now_ts = now])
    /\ Goto(t, "store")
    /\ UNCHANGED <<now, port_allocations, containers, runtime_vars, runtime_faults,
                   other_vars, sweep_vars, stale_list, shutdown_vars, requests>>

\* The row store_container inserts: expiration_time is now_ts + LEAVE_TIME,
\* start_time the clock at the INSERT.
NewRow(r, t) == [id |-> r.id, port |-> r.port, start_time |-> t,
                 expiration_time |-> r.now_ts + LEAVE_TIME,
                 user_uuid |-> r.user_uuid, ip_address |-> r.ip]

\* store_container: the INSERT, or False when the store fails.
deploy_container_store(t) ==
    /\ pc[t] = "store"
    /\ \/ /\ UNCHANGED store_faults
          /\ containers' = containers \cup {NewRow(req[t], now)}
          /\ Reply(t, "OK")
       \/ /\ StoreCanFail /\ StoreFails
          /\ UNCHANGED containers
          /\ Goto(t, "cleanup_rm")
    /\ UNCHANGED <<now, port_allocations, ip_requests, runtime_vars, runtime_faults,
                   other_vars, req, sweep_vars, stale_list, shutdown_vars, requests>>

\* The cleanup after a failed INSERT: final_container.remove(force=True) and
\* release_port(port) share one try block.
deploy_container_cleanup_remove(t) ==
    /\ pc[t] = "cleanup_rm"
    /\ \/ /\ UNCHANGED runtime_faults
          /\ handles' = RemoveHandle(handles, req[t].id)
          /\ Goto(t, "cleanup_rel")
       \/ /\ RuntimeCanFail /\ RuntimeFails
          /\ UNCHANGED handles
          /\ Reply(t, "DB_ERROR")
    /\ UNCHANGED <<now, store_vars, ext_bound, next_id, store_faults, other_vars,
                   req, sweep_vars, stale_list, shutdown_vars, requests>>

deploy_container_cleanup_release(t) ==
    /\ pc[t] = "cleanup_rel"
    /\ \/ /\ UNCHANGED store_faults
          /\ port_allocations' = MarkReleased(port_allocations, req[t].port)
       \/ /\ StoreCanFail /\ StoreFails
          /\ UNCHANGED port_allocations
    /\ Reply(t, "DB_ERROR")
    /\ UNCHANGED <<now, containers, ip_requests, runtime_vars, runtime_faults,
                   other_vars, req, sweep_vars, stale_list, shutdown_vars, requests>>

deploy_container(t) ==
    \/ deploy_container_begin(t)
    \/ deploy_container_rate_limit(t)
    \/ deploy_container_captcha(t)
    \/ deploy_container_duplicate(t)
    \/ deploy_container_quota(t)
    \/ deploy_container_allocate(t)
    \/ deploy_container_start(t)
    \/ deploy_container_release_in_use(t)
    \/ deploy_container_release_api_error(t)
    \/ deploy_container_record(t)
    \/ deploy_container_store(t)
    \/ deploy_container_cleanup_remove(t)
    \/ deploy_container_cleanup_release(t)

(***************************************************************************)
(* POST /stop (routes.stop_container, docker_utils.remove_container,       *)
(* database.remove_container_from_db).                                     *)
(***************************************************************************)
stop_container_begin(t) ==
    /\ Idle(t)
    /\ \E cl \in scenario.clients :
          /\ SetReq(t, [NoReq EXCEPT !.kind = "stop", !.user_uuid = cl[1]])
          /\ IF cl[1] = "" THEN Reply(t, "SESSION_ERROR") ELSE Goto(t, "s_lookup")
    /\ UNCHANGED <<now, store_vars, runtime_vars, fault_vars, other_vars,
                   sweep_vars, stale_list, shutdown_vars>>
    /\ requests' = requests + 1

\* SELECT id, port FROM containers WHERE user_uuid = %s (fetchone).
stop_container_lookup(t) ==
    /\ pc[t] = "s_lookup"
    /\ \/ /\ StoreCanFail /\ StoreFails
          /\ Reply(t, "STOP_FAILED")
          /\ UNCHANGED req
       \/ /\ UNCHANGED store_faults
          /\ ~\E c \in containers : c.user_uuid = req[t].user_uuid
          /\ Reply(t, "NO_CONTAINER")
          /\ UNCHANGED req
       \/ /\ UNCHANGED store_faults
          /\ \E c \in containers :
                /\ c.user_uuid = req[t].user_uuid
                /\ SetReq(t, [req[t] EXCEPT !.id = c.id, !.port = c.port])
          /\ Goto(t, "s_rm")
    /\ UNCHANGED <<now, store_vars, runtime_vars, runtime_faults, other_vars,
                   sweep_vars, stale_list, shutdown_vars, requests>>

\* The runtime part without its except clauses: NotFound reaches /stop's
\* handler, which answers 500.
remove_container_docker_raises(t) ==
    /\ pc[t] = "s_rm"
    /\ IF req[t].id \in DOMAIN handles
       THEN /\ handles' = RemoveHandle(handles, req[t].id)
            /\ Goto(t, "s_sel")
       ELSE /\ UNCHANGED handles
            /\ Reply(t, "STOP_FAILED")
    /\ UNCHANGED <<now, store_vars, ext_bound, next_id, fault_vars, other_vars,
                   req, sweep_vars, stale_list, shutdown_vars, requests>>

\* docker_utils.remove_container, the runtime part: NotFound and any other
\* error are logged and the database part follows.
remove_container_docker(t) ==
    /\ pc[t] = "s_rm"
    /\ \/ /\ UNCHANGED runtime_faults
          /\ handles' = RemoveHandle(handles, req[t].id)
       \/ /\ RuntimeCanFail /\ RuntimeFails
          /\ UNCHANGED handles
    /\ Goto(t, "s_sel")
    /\ UNCHANGED <<now, store_vars, ext_bound, next_id, store_faults, other_vars,
                   req, sweep_vars, stale_list, shutdown_vars, requests>>

\* remove_container_from_db: SELECT port FROM containers WHERE id = %s.
remove_container_from_db_select(t) ==
    /\ pc[t] = "s_sel"
    /\ \/ /\ StoreCanFail /\ StoreFails
          /\ Goto(t, "s_del")
          /\ UNCHANGED req
       \/ /\ UNCHANGED store_faults
          /\ IF \E c \in containers : c.id = req[t].id
             THEN /\ SetReq(t, [req[t] EXCEPT !.db_port =
                        (CHOOSE c \in containers : c.id = req[t].id).port])
                  /\ Goto(t, "s_rel1")
             ELSE /\ Goto(t, "s_del")
                  /\ UNCHANGED req
    /\ UNCHANGED <<now, store_vars, runtime_vars, runtime_faults, other_vars,
                   sweep_vars, stale_list, shutdown_vars, requests>>

\* remove_container_from_db: release_port(port) of the row just read.
remove_container_from_db_release(t) ==
    /\ pc[t] = "s_rel1"
    /\ \/ /\ UNCHANGED store_faults
          /\ port_allocations' = MarkReleased(port_allocations, req[t].db_port)
       \/ /\ StoreCanFail /\ StoreFails
          /\ UNCHANGED port_allocations
    /\ Goto(t, "s_del")
    /\ UNCHANGED <<now, containers, ip_requests, runtime_vars, runtime_faults,
                   other_vars, req, sweep_vars, stale_list, shutdown_vars, requests>>

DeleteRow(rows, id) == {c \in rows : c.id # id}

\* remove_container_from_db: DELETE FROM containers WHERE id = %s; when it
\* raises, remove_container logs it and skips its own release_port.
remove_container_from_db_delete(t) ==
    /\ pc[t] = "s_del"
    /\ \/ /\ UNCHANGED store_faults
          /\ containers' = DeleteRow(containers, req[t].id)
          /\ Goto(t, "s_rel2")
       \/ /\ StoreCanFail /\ StoreFails
          /\ UNCHANGED containers
          /\ Reply(t, "STOPPED")
    /\ UNCHANGED <<now, port_allocations, ip_requests, runtime_vars, runtime_faults,
                   other_vars, req, sweep_vars, stale_list, shutdown_vars, requests>>

\* docker_utils.remove_container: if port: release_port(port); then /stop
\* answers success.
remove_container_release(t) ==
    /\ pc[t] = "s_rel2"
    /\ \/ /\ UNCHANGED store_faults
          /\ port_allocations' = MarkReleased(port_allocations, req[t].port)
       \/ /\ StoreCanFail /\ StoreFails
          /\ UNCHANGED port_allocations
    /\ Reply(t, "STOPPED")
    /\ UNCHANGED <<now, containers, ip_requests, runtime_vars, runtime_faults,
                   other_vars, req, sweep_vars, stale_list, shutdown_vars, requests>>

stop_container(t) ==
    \/ stop_container_begin(t)
    \/ stop_container_lookup(t)
    \/ remove_container_docker(t)
    \/ remove_container_from_db_select(t)
    \/ remove_container_from_db_release(t)
    \/ remove_container_from_db_delete(t)
    \/ remove_container_release(t)

(***************************************************************************)
(* POST /extend (routes.extend_container_lifetime).                        *)
(***************************************************************************)
\* The clock stops at MaxTime, so an expiry beyond it is never reached: no
\* further extension is started then.
extend_container_lifetime_begin(t) ==
    /\ Idle(t)
    /\ \A c \in containers : c.expiration_time <= BootTime + scenario.clock
    /\ \E cl \in scenario.clients :
          /\ SetReq(t, [NoReq EXCEPT !.kind = "extend", !.user_uuid = cl[1]])
          /\ IF cl[1] = "" THEN Reply(t, "SESSION_ERROR") ELSE Goto(t, "e_lookup")
    /\ UNCHANGED <<now, store_vars, runtime_vars, fault_vars, other_vars,
                   sweep_vars, stale_list, shutdown_vars>>
    /\ requests' = requests + 1

\* SELECT id, expiration_time FROM containers WHERE user_uuid = %s.
extend_container_lifetime_lookup(t) ==
    /\ pc[t] = "e_lookup"
    /\ \/ /\ ~\E c \in containers : c.user_uuid = req[t].user_uuid
          /\ Reply(t, "NO_CONTAINER")
          /\ UNCHANGED req
       \/ /\ \E c \in containers :
                /\ c.user_uuid = req[t].user_uuid
                /\ SetReq(t, [req[t] EXCEPT !.id = c.id,
                                            !.expiration_time = c.expiration_time])
          /\ Goto(t, "e_update")
    /\ UNCHANGED <<now, store_vars, runtime_vars, fault_vars, other_vars,
                   sweep_vars, stale_list, shutdown_vars, requests>>

\* UPDATE containers SET expiration_time = %s WHERE id = %s.
SetExpiration(rows, id, e) ==
    {IF c.id = id THEN [c EXCEPT !.expiration_time = e] ELSE c : c \in rows}

extend_container_lifetime_update(t) ==
    /\ pc[t] = "e_update"
    /\ containers' = SetExpiration(containers, req[t].id,
                                   req[t].expiration_time + ADD_TIME)
    /\ Reply(t, "EXTENDED")
    /\ UNCHANGED <<now, port_allocations, ip_requests, runtime_vars, fault_vars,
                   other_vars, req, sweep_vars, stale_list, shutdown_vars, requests>>

extend_container_lifetime(t) ==
    \/ extend_container_lifetime_begin(t)
    \/ extend_container_lifetime_lookup(t)
    \/ extend_container_lifetime_update(t)

(***************************************************************************)
(* The expiration sweeper (cleanup_manager.cleanup_loop).                  *)
(***************************************************************************)
\* The result orders of SELECT id, port FROM containers WHERE
\* expiration_time < %s ORDER BY expiration_time ASC.
SortedSeqs(rows) ==
    {s \in [1 .. Cardinality(rows) -> rows] :
        /\ \A i, j \in DOMAIN s : i < j =>
              s[i] # s[j] /\ s[i].expiration_time <= s[j].expiration_time}

\* The same query with expiration_time <= %s.
get_expired_containers_inclusive(current_time) ==
    SortedSeqs({c \in containers : c.expiration_time <= current_time})

get_expired_containers(current_time) ==
    SortedSeqs({c \in containers : c.expiration_time < current_time})

\* cleanup_manager.shutdown has set stop_signal.
StopSignal == shutdown_pass = 2 \/ shutdown_pc = "maint"

\* process_expired_containers: the scan; an empty result ends the pass.
process_expired_containers(self) ==
    /\ sweep_pc = "wait"
    /\ ~StopSignal
    /\ \E s \in get_expired_containers(now) :
          /\ s # <<>>
          /\ sweep_list' = [i \in DOMAIN s |-> [id |-> s[i].id, port |-> s[i].port]]
    /\ sweep_pc' = "rm"
    /\ UNCHANGED <<now, store_vars, runtime_vars, fault_vars, other_vars,
                   pc, req, resp, stale_list, shutdown_vars, requests>>

\* cleanup_manager.remove_container, the runtime part.
cleanup_remove_container_docker(self) ==
    /\ sweep_pc = "rm"
    /\ \/ /\ UNCHANGED runtime_faults
          /\ handles' = RemoveHandle(handles, Head(sweep_list).id)
       \/ /\ RuntimeCanFail /\ RuntimeFails
          /\ UNCHANGED handles
    /\ sweep_pc' = "db"
    /\ UNCHANGED <<now, store_vars, ext_bound, next_id, store_faults, other_vars,
                   pc, req, resp, sweep_list, stale_list, shutdown_vars, requests>>

\* The database part without the per-lease except clause of
\* process_expired_containers: an error ends the pass.
cleanup_remove_container_db_aborts(self) ==
    /\ sweep_pc = "db"
    /\ \/ /\ UNCHANGED store_faults
          /\ port_allocations' = MarkReleased(port_allocations, Head(sweep_list).port)
          /\ containers' = DeleteRow(containers, Head(sweep_list).id)
          /\ sweep_list' = Tail(sweep_list)
          /\ sweep_pc' = IF Tail(sweep_list) = <<>> THEN "wait" ELSE "rm"
       \/ /\ StoreCanFail /\ StoreFails
          /\ UNCHANGED <<port_allocations, containers>>
          /\ sweep_list' = <<>>
          /\ sweep_pc' = "wait"
    /\ UNCHANGED <<now, ip_requests, runtime_vars, runtime_faults, other_vars,
                   pc, req, resp, stale_list, shutdown_vars, requests>>

\* cleanup_manager.remove_container, the database part: one transaction
\* releases the port and deletes the row; an error rolls both back and the
\* pass goes on with the next lease.
cleanup_remove_container_db(self) ==
    /\ sweep_pc = "db"
    /\ \/ /\ UNCHANGED store_faults
          /\ port_allocations' = MarkReleased(port_allocations, Head(sweep_list).port)
          /\ containers' = DeleteRow(containers, Head(sweep_list).id)
       \/ /\ StoreCanFail /\ StoreFails
          /\ UNCHANGED <<port_allocations, containers>>
    /\ sweep_list' = Tail(sweep_list)
    /\ sweep_pc' = IF Tail(sweep_list) = <<>> THEN "wait" ELSE "rm"
    /\ UNCHANGED <<now, ip_requests, runtime_vars, runtime_faults, other_vars,
                   pc, req, resp, stale_list, shutdown_vars, requests>>

cleanup_loop(self) ==
    \/ process_expired_containers(self)
    \/ cleanup_remove_container_docker(self)
    \/ cleanup_remove_container_db(self)

(***************************************************************************)
(* The maintenance timer (routes.start_maintenance_timer,                  *)
(* database.perform_maintenance, cleanup_stale_port_allocations).          *)
(***************************************************************************)
\* The same query with an inner join: only slots that record a holder.
stale_ports_of_holders(cutoff_time) ==
    {p \in PORT_RANGE :
        /\ port_allocations[p].allocated
        /\ port_allocations[p].allocated_time < cutoff_time
        /\ port_allocations[p].container_id # NULL
        /\ ~\E c \in containers : port_allocations[p].container_id = c.id}

\* SELECT p.port FROM port_allocations p LEFT JOIN containers c
\*   ON p.container_id = c.id
\* WHERE p.allocated = TRUE AND p.allocated_time < cutoff AND c.id IS NULL.
\* A NULL container_id joins with no row.
stale_ports(cutoff_time) ==
    {p \in PORT_RANGE :
        /\ port_allocations[p].allocated
        /\ port_allocations[p].allocated_time < cutoff_time
        /\ ~\E c \in containers :
              /\ port_allocations[p].container_id # NULL
              /\ port_allocations[p].container_id = c.id}

cleanup_stale_port_allocations_scan(self) ==
    /\ stale_list = {}
    /\ shutdown_pc # "exited"
    /\ stale_ports(now - STALE_PORT_MAX_AGE) # {}
    /\ stale_list' = stale_ports(now - STALE_PORT_MAX_AGE)
    /\ UNCHANGED <<now, store_vars, runtime_vars, fault_vars, other_vars,
                   pc, req, resp, sweep_vars, shutdown_vars, requests>>

\* for port_record in stale_ports: release_port(port)
cleanup_stale_port_allocations_release(self) ==
    /\ stale_list # {}
    /\ \E p \in stale_list :
          /\ stale_list' = stale_list \ {p}
          /\ \/ /\ UNCHANGED store_faults
                /\ port_allocations' = MarkReleased(port_allocations, p)
             \/ /\ StoreCanFail /\ StoreFails
                /\ UNCHANGED port_allocations
    /\ UNCHANGED <<now, containers, ip_requests, runtime_vars, runtime_faults,
                   other_vars, pc, req, resp, sweep_vars, shutdown_vars, requests>>

perform_maintenance(self) ==
    \/ cleanup_stale_port_allocations_scan(self)
    \/ cleanup_stale_port_allocations_release(self)

\* The worker thread is free again.
finish(t) ==
    /\ pc[t] = "done"
    /\ pc' = [pc EXCEPT ![t] = "idle"]
    /\ req' = [req EXCEPT ![t] = NoReq]
    /\ resp' = [resp EXCEPT ![t] = "none"]
    /\ UNCHANGED <<now, store_vars, runtime_vars, fault_vars, other_vars,
                   sweep_vars, stale_list, shutdown_vars, requests>>

(***************************************************************************)
(* The environment: the clock, an outside process that binds a port of the *)
(* range, and a workload that exits by itself.                             *)
(***************************************************************************)
Tick ==
    /\ now < BootTime + scenario.clock
    /\ now' = now + 1
    /\ UNCHANGED <<store_vars, runtime_vars, fault_vars, other_vars,
                   pc, req, resp, sweep_vars, stale_list, shutdown_vars, requests>>

ExternalBind ==
    /\ Cardinality(ext_bound) < scenario.external
    /\ \E p \in PORT_RANGE :
          /\ ~PortBound(p)
          /\ ext_bound' = ext_bound \cup {p}
    /\ UNCHANGED <<now, store_vars, handles, next_id, fault_vars, other_vars,
                   pc, req, resp, sweep_vars, stale_list, shutdown_vars, requests>>

HandleExits ==
    /\ \E h \in DOMAIN handles :
          /\ handles[h].state = "running"
          /\ handles' = [handles EXCEPT ![h].state = "exited"]
    /\ UNCHANGED <<now, store_vars, ext_bound, next_id, fault_vars, other_vars,
                   pc, req, resp, sweep_vars, stale_list, shutdown_vars, requests>>

(***************************************************************************)
(* database.allocate_port statement by statement, on the connections of   *)
(* pg_pool.  A connection is a PostgreSQL session: with autocommit off a   *)
(* statement opens a transaction that holds its row locks and its writes   *)
(* until COMMIT or ROLLBACK; SKIP LOCKED passes over rows locked by other  *)
(* sessions.  psycopg2 refuses to change autocommit inside a transaction   *)
(* and refuses every call on a closed connection.  The pool hands out its  *)
(* idle connections last-in first-out and raises PoolError when it has     *)
(* none, or when a connection it did not hand out is put back.             *)
(***************************************************************************)
IdleConn == [autocommit |-> TRUE, intrans |-> FALSE, locked |-> {},
             written |-> {}, closed |-> FALSE]

\* Rows locked by the open transactions of the other sessions.
LockedByOthers(c) == UNION {connections[d].locked : d \in Conns \ {c}}

\* conn.rollback() / the end of a transaction.
EndTransaction(cs, c) ==
    [cs EXCEPT ![c].intrans = FALSE, ![c].locked = {}, ![c].written = {}]

\* conn.commit(): the UPDATEs of the transaction reach the table.
ApplyWrites(pa, w) ==
    [p \in PORT_RANGE |->
        IF \E x \in w : x.port = p
        THEN [allocated |-> TRUE, container_id |-> NULL,
              allocated_time |-> (CHOOSE x \in w : x.port = p).allocated_time]
        ELSE pa[p]]

\* A statement run on session c: it opens a transaction unless autocommit.
Begin(cs, c) == [cs EXCEPT ![c].intrans = ~cs[c].autocommit]

AllocUnchanged == <<now, containers, ip_requests, runtime_vars, runtime_faults,
                    config_vars, captcha_vars, resource_usage, sweep_vars,
                    stale_list, shutdown_vars>>

allocate_port_begin(t) ==
    /\ Idle(t)
    /\ \E b \in BlockedInputs :
          SetReq(t, [NoReq EXCEPT !.kind = "allocate", !.blocked = b])
    /\ Goto(t, "a_loop")
    /\ requests' = requests + 1
    /\ UNCHANGED <<AllocUnchanged, port_allocations, store_faults, pool_vars>>

\* while attempt < max_attempts: attempt += 1; conn = get_connection().
\* When get_connection raises, conn keeps the value of the attempt before.
allocate_port_get_connection(t) ==
    /\ pc[t] = "a_loop"
    /\ IF req[t].attempt >= PORT_ALLOCATION_MAX_ATTEMPTS
       THEN /\ Reply(t, "NONE_AVAILABLE")
            /\ SetReq(t, [req[t] EXCEPT !.port = NULL])
            /\ UNCHANGED pool_vars
       ELSE IF pg_pool.pool = <<>>
       THEN \* PoolError: connection pool exhausted
            /\ Goto(t, "a_except")
            /\ SetReq(t, [req[t] EXCEPT !.attempt = @ + 1])
            /\ UNCHANGED pool_vars
       ELSE LET c == pg_pool.pool[Len(pg_pool.pool)]
            IN  /\ pg_pool' = [pool |-> SubSeq(pg_pool.pool, 1, Len(pg_pool.pool) - 1),
                               used |-> pg_pool.used \cup {c}]
                /\ IF connections[c].closed
                   THEN \* conn.cursor() raises; the connection stays checked out
                        /\ Goto(t, "a_except")
                        /\ SetReq(t, [req[t] EXCEPT !.attempt = @ + 1])
                        /\ UNCHANGED connections
                   ELSE \* SET statement_timeout
                        /\ connections' = Begin(connections, c)
                        /\ SetReq(t, [req[t] EXCEPT !.attempt = @ + 1, !.conn = c])
                        /\ Goto(t, "a_auto")
    /\ UNCHANGED <<AllocUnchanged, port_allocations, store_faults, requests>>

\* conn.autocommit = False
allocate_port_autocommit(t) ==
    /\ pc[t] = "a_auto"
    /\ LET c == req[t].conn
       IN  IF connections[c].closed \/ connections[c].intrans
           THEN Goto(t, "a_except") /\ UNCHANGED connections
           ELSE /\ connections' = [connections EXCEPT ![c].autocommit = FALSE]
                /\ Goto(t, "a_select")
    /\ UNCHANGED <<AllocUnchanged, port_allocations, store_faults, pg_pool, req,
                   requests>>

\* SELECT port ... WHERE allocated = FALSE [AND port NOT IN blocked]
\* ORDER BY port LIMIT 1 FOR UPDATE SKIP LOCKED
allocate_port_select(t) ==
    /\ pc[t] = "a_select"
    /\ LET c == req[t].conn
           own == {x.port : x \in connections[c].written}
           p == SelectFreePort(port_allocations,
                               req[t].blocked \cup LockedByOthers(c) \cup own)
       IN  \/ /\ connections[c].closed
              /\ Goto(t, "a_except")
              /\ UNCHANGED <<connections, req, store_faults>>
           \/ /\ ~connections[c].closed
              /\ StoreCanFail /\ StoreFails
              /\ Goto(t, "a_except")
              /\ connections' = Begin(connections, c)
              /\ UNCHANGED req
           \/ /\ ~connections[c].closed
              /\ UNCHANGED store_faults
              /\ IF p = NULL
                 THEN /\ connections' = Begin(connections, c)
                      /\ Goto(t, "a_norow")
                      /\ UNCHANGED req
                 ELSE /\ connections' =
                          IF connections[c].autocommit
                          THEN connections
                          ELSE [connections EXCEPT ![c].intrans = TRUE,
                                                   ![c].locked = @ \cup {p}]
                      /\ SetReq(t, [req[t] EXCEPT !.port = p])
                      /\ Goto(t, "a_update")
    /\ UNCHANGED <<AllocUnchanged, port_allocations, pg_pool, requests>>

\* if not result: conn.rollback(); sleep; continue
allocate_port_no_row(t) ==
    /\ pc[t] = "a_norow"
    /\ LET c == req[t].conn
       IN  IF connections[c].closed
           THEN Goto(t, "a_except") /\ UNCHANGED <<connections, req>>
           ELSE /\ connections' = EndTransaction(connections, c)
                /\ SetReq(t, [req[t] EXCEPT !.after = "loop"])
                /\ Goto(t, "a_finally")
    /\ UNCHANGED <<AllocUnchanged, port_allocations, store_faults, pg_pool, requests>>

\* UPDATE port_allocations SET allocated = TRUE, container_id = NULL,
\* allocated_time = now WHERE port = %s; it waits for a row another session
\* has locked.
allocate_port_update(t) ==
    /\ pc[t] = "a_update"
    /\ LET c == req[t].conn
           p == req[t].port
       IN  \/ /\ connections[c].closed
              /\ Goto(t, "a_except")
              /\ UNCHANGED <<connections, port_allocations>>
           \/ /\ ~connections[c].closed
              /\ p \notin LockedByOthers(c)
              /\ Goto(t, "a_commit")
              /\ IF connections[c].autocommit
                 THEN /\ port_allocations' = MarkAllocated(port_allocations, p, NULL, now)
                      /\ UNCHANGED connections
                 ELSE /\ connections' =
                          [connections EXCEPT
                              ![c].intrans = TRUE,
                              ![c].locked = @ \cup {p},
                              ![c].written = {x \in @ : x.port # p} \cup
                                             {[port |-> p, allocated_time |-> now]}]
                      /\ UNCHANGED port_allocations
    /\ UNCHANGED <<AllocUnchanged, store_faults, pg_pool, req, requests>>

\* conn.commit(); return port (through the finally clause)
allocate_port_commit(t) ==
    /\ pc[t] = "a_commit"
    /\ LET c == req[t].conn
       IN  IF connections[c].closed
           THEN Goto(t, "a_except") /\ UNCHANGED <<connections, port_allocations, req>>
           ELSE /\ port_allocations' = ApplyWrites(port_allocations, connections[c].written)
                /\ connections' = EndTransaction(connections, c)
                /\ SetReq(t, [req[t] EXCEPT !.after = "return"])
                /\ Goto(t, "a_finally")
    /\ UNCHANGED <<AllocUnchanged, store_faults, pg_pool, requests>>

\* except Exception: if conn: try: conn.rollback() except: pass; sleep
allocate_port_except(t) ==
    /\ pc[t] = "a_except"
    /\ LET c == req[t].conn
       IN  connections' = IF c = NULL \/ connections[c].closed
                          THEN connections
                          ELSE EndTransaction(connections, c)
    /\ SetReq(t, [req[t] EXCEPT !.after = "loop"])
    /\ Goto(t, "a_finally")
    /\ UNCHANGED <<AllocUnchanged, port_allocations, store_faults, pg_pool, requests>>

\* finally: if conn: conn.autocommit = True; an error here leaves
\* allocate_port as an exception.
allocate_port_finally(t) ==
    /\ pc[t] = "a_finally"
    /\ LET c == req[t].conn
       IN  IF c = NULL
           THEN Goto(t, "a_loop") /\ UNCHANGED <<connections, req>>
           ELSE IF connections[c].closed \/ connections[c].intrans
           THEN /\ Reply(t, "RAISED")
                /\ SetReq(t, [req[t] EXCEPT !.port = NULL])
                /\ UNCHANGED connections
           ELSE /\ connections' = [connections EXCEPT ![c].autocommit = TRUE]
                /\ Goto(t, "a_release")
                /\ UNCHANGED req
    /\ UNCHANGED <<AllocUnchanged, port_allocations, store_faults, pg_pool, requests>>

\* release_connection(conn): roll back an open transaction, putconn; a
\* connection the pool does not know as handed out is closed instead.
release_connection(pool, cs, c) ==
    IF c \in pool.used
    THEN [pool |-> [pool |-> IF cs[c].closed THEN pool.pool ELSE Append(pool.pool, c),
                    used |-> pool.used \ {c}],
          conns |-> IF cs[c].closed THEN cs ELSE EndTransaction(cs, c)]
    ELSE [pool |-> pool,
          conns |-> [(IF cs[c].closed THEN cs ELSE EndTransaction(cs, c))
                        EXCEPT ![c].closed = TRUE]]

allocate_port_release_connection(t) ==
    /\ pc[t] = "a_release"
    /\ LET r == release_connection(pg_pool, connections, req[t].conn)
       IN  /\ pg_pool' = r.pool
           /\ connections' = r.conns
    /\ IF req[t].after = "return"
       THEN Reply(t, "ALLOCATED")
       ELSE Goto(t, "a_loop")
    /\ UNCHANGED <<AllocUnchanged, port_allocations, store_faults, req, requests>>

\* The caller is done with the answer; a port it was given goes back with
\* release_port (its UPDATE waits for a locked row).
allocate_port_done(t) ==
    /\ pc[t] = "done"
    /\ req[t].kind = "allocate"
    /\ IF resp[t] = "ALLOCATED"
       THEN /\ \A c \in Conns : req[t].port \notin connections[c].locked
            /\ port_allocations' = MarkReleased(port_allocations, req[t].port)
       ELSE UNCHANGED port_allocations
    /\ pc' = [pc EXCEPT ![t] = "idle"]
    /\ req' = [req EXCEPT ![t] = NoReq]
    /\ resp' = [resp EXCEPT ![t] = "none"]
    /\ UNCHANGED <<AllocUnchanged, store_faults, pool_vars, requests>>

allocate_port(t) ==
    \/ allocate_port_begin(t)
    \/ allocate_port_get_connection(t)
    \/ allocate_port_autocommit(t)
    \/ allocate_port_select(t)
    \/ allocate_port_no_row(t)
    \/ allocate_port_update(t)
    \/ allocate_port_commit(t)
    \/ allocate_port_except(t)
    \/ allocate_port_finally(t)
    \/ allocate_port_release_connection(t)
    \/ allocate_port_done(t)

\* release_port(port): "if not port: return False".
release_port_begin(t) ==
    /\ Idle(t)
    /\ \E port \in PORT_RANGE \cup {NULL} :
          /\ SetReq(t, [NoReq EXCEPT !.kind = "release", !.port = port])
          /\ IF port = NULL THEN Reply(t, "RELEASE_FAILED") ELSE Goto(t, "r_update")
    /\ requests' = requests + 1
    /\ UNCHANGED <<AllocUnchanged, port_allocations, store_faults, pool_vars>>

\* get_connection, the UPDATE (it waits for a row another session has
\* locked), commit and release_connection; an exception is rolled back and
\* answered False.  get_connection raises on an empty pool, and on a closed
\* connection after it was taken from the pool.
release_port_update(t) ==
    /\ pc[t] = "r_update"
    /\ IF pg_pool.pool = <<>>
       THEN /\ Reply(t, "RELEASE_FAILED")
            /\ UNCHANGED <<port_allocations, store_faults, pool_vars>>
       ELSE LET c == pg_pool.pool[Len(pg_pool.pool)]
            IN  IF connections[c].closed
                THEN /\ pg_pool' = [pool |-> SubSeq(pg_pool.pool, 1, Len(pg_pool.pool) - 1),
                                    used |-> pg_pool.used \cup {c}]
                     /\ Reply(t, "RELEASE_FAILED")
                     /\ UNCHANGED <<port_allocations, store_faults, connections>>
                ELSE \/ /\ StoreCanFail /\ StoreFails
                        /\ Reply(t, "RELEASE_FAILED")
                        /\ UNCHANGED <<port_allocations, pool_vars>>
                     \/ /\ req[t].port \notin LockedByOthers(c)
                        /\ port_allocations' = MarkReleased(port_allocations, req[t].port)
                        /\ Reply(t, "RELEASED")
                        /\ UNCHANGED <<store_faults, pool_vars>>
    /\ UNCHANGED <<AllocUnchanged, req, requests>>

release_port(t) ==
    \/ release_port_begin(t)
    \/ release_port_update(t)

(***************************************************************************)
(* Graceful shutdown (app.signal_handler, cleanup_all_resources, and the   *)
(* same cleanup_all_resources registered with atexit).                     *)
(***************************************************************************)
ShutdownUnchanged == <<now, ip_requests, ext_bound, next_id, other_vars, req, resp,
                       requests, sweep_list, stale_list>>

\* SIGTERM or SIGINT arrives.
signal_handler ==
    /\ shutdown_pc = "running"
    /\ shutdown_pc' = "containers"
    /\ shutdown_pass' = 1
    /\ UNCHANGED <<ShutdownUnchanged, port_allocations, containers, handles,
                   fault_vars, pc, sweep_pc, shutdown_list>>

\* The result orders of SELECT id, port FROM containers.
AllSeqs(rows) ==
    {s \in [1 .. Cardinality(rows) -> rows] : \A i, j \in DOMAIN s : i < j => s[i] # s[j]}

\* cleanup_all_containers: the SELECT; an error ends cleanup_all_containers.
cleanup_all_containers_select ==
    /\ shutdown_pc = "containers"
    /\ \/ /\ UNCHANGED store_faults
          /\ \E s \in AllSeqs(containers) :
                shutdown_list' = [i \in DOMAIN s |-> [id |-> s[i].id, port |-> s[i].port]]
          /\ shutdown_pc' = IF containers = {} THEN "delete" ELSE "rm"
       \/ /\ StoreCanFail /\ StoreFails
          /\ shutdown_pc' = "stop"
          /\ UNCHANGED shutdown_list
    /\ UNCHANGED <<ShutdownUnchanged, port_allocations, containers, handles,
                   runtime_faults, pc, sweep_pc, shutdown_pass>>

\* container.remove(force=True); NotFound and other errors are logged.
cleanup_all_containers_remove ==
    /\ shutdown_pc = "rm"
    /\ \/ /\ UNCHANGED runtime_faults
          /\ handles' = RemoveHandle(handles, Head(shutdown_list).id)
       \/ /\ RuntimeCanFail /\ RuntimeFails
          /\ UNCHANGED handles
    /\ shutdown_pc' = "rel"
    /\ UNCHANGED <<ShutdownUnchanged, port_allocations, containers, store_faults,
                   pc, sweep_pc, shutdown_list, shutdown_pass>>

\* release_port(port)
cleanup_all_containers_release ==
    /\ shutdown_pc = "rel"
    /\ \/ /\ UNCHANGED store_faults
          /\ port_allocations' = MarkReleased(port_allocations, Head(shutdown_list).port)
       \/ /\ StoreCanFail /\ StoreFails
          /\ UNCHANGED port_allocations
    /\ shutdown_list' = Tail(shutdown_list)
    /\ shutdown_pc' = IF Tail(shutdown_list) = <<>> THEN "delete" ELSE "rm"
    /\ UNCHANGED <<ShutdownUnchanged, containers, handles, runtime_faults, pc,
                   sweep_pc, shutdown_pass>>

\* DELETE FROM containers
cleanup_all_containers_delete ==
    /\ shutdown_pc = "delete"
    /\ \/ /\ UNCHANGED store_faults
          /\ containers' = {}
       \/ /\ StoreCanFail /\ StoreFails
          /\ UNCHANGED containers
    /\ shutdown_pc' = "stop"
    /\ UNCHANGED <<ShutdownUnchanged, port_allocations, handles, runtime_faults, pc,
                   sweep_pc, shutdown_list, shutdown_pass>>

\* shutdown_thread_pool(); cleanup_manager.shutdown(): stop_signal.set() and a
\* join of at most five seconds.
cleanup_manager_shutdown ==
    /\ shutdown_pc = "stop"
    /\ shutdown_pc' = "maint"
    /\ UNCHANGED <<ShutdownUnchanged, port_allocations, containers, handles,
                   fault_vars, pc, sweep_pc, shutdown_list, shutdown_pass>>

\* perform_maintenance() and resource_monitor.shutdown(); the signal handler
\* then calls sys.exit(0), which runs cleanup_all_resources once more (atexit)
\* and ends the process with all its threads.
final_maintenance ==
    /\ shutdown_pc = "maint"
    /\ \/ /\ UNCHANGED store_faults
          /\ port_allocations' =
                [p \in PORT_RANGE |->
                    IF p \in stale_ports(now - STALE_PORT_MAX_AGE)
                    THEN FreeRow ELSE port_allocations[p]]
       \/ /\ StoreCanFail /\ StoreFails
          /\ UNCHANGED port_allocations
    /\ IF shutdown_pass = 1
       THEN /\ shutdown_pass' = 2
            /\ shutdown_pc' = "containers"
            /\ UNCHANGED <<pc, sweep_pc>>
       ELSE /\ shutdown_pc' = "exited"
            /\ pc' = [t \in Threads |-> "killed"]
            /\ sweep_pc' = "killed"
            /\ UNCHANGED shutdown_pass
    /\ UNCHANGED <<ShutdownUnchanged, containers, handles, runtime_faults,
                   shutdown_list>>

cleanup_all_resources ==
    \/ signal_handler
    \/ cleanup_all_containers_select
    \/ cleanup_all_containers_remove
    \/ cleanup_all_containers_release
    \/ cleanup_all_containers_delete
    \/ cleanup_manager_shutdown
    \/ final_maintenance

(***************************************************************************)
(* The state after startup on an empty database (app.__main__, init_db),   *)
(* for a given configuration and workload.                                 *)
(***************************************************************************)
Start(sc, bypass, quotas) ==
    /\ now = BootTime
    /\ port_allocations = [p \in PORT_RANGE |-> FreeRow]
    /\ containers = {}
    /\ ip_requests = {}
    /\ handles = <<>>
    /\ ext_bound = {}
    /\ next_id = 1
    /\ store_faults = 0
    /\ runtime_faults = 0
    /\ captcha_cache = <<>>
    /\ next_captcha = 1
    /\ bypass_captcha = bypass
    /\ enable_resource_quotas = quotas
    /\ resource_usage = [containers |-> 0, cpu |-> 0, memory |-> 0, last_updated |-> 0]
    /\ pg_pool = [pool |-> [c \in Conns |-> c], used |-> {}]
    /\ connections = [c \in Conns |-> IdleConn]
    /\ scenario = sc
    /\ pc = [t \in Threads |-> "idle"]
    /\ req = [t \in Threads |-> NoReq]
    /\ resp = [t \in Threads |-> "none"]
    /\ requests = 0
    /\ sweep_pc = "wait"
    /\ sweep_list = <<>>
    /\ stale_list = {}
    /\ shutdown_pc = "running"
    /\ shutdown_list = <<>>
    /\ shutdown_pass = 0

Requests ==
    \/ \E t \in Threads : deploy_container(t)
    \/ \E t \in Threads : stop_container(t)
    \/ \E t \in Threads : extend_container_lifetime(t)
    \/ \E t \in Threads : finish(t)

(***************************************************************************)
(* Spec: concurrent requests of two owners, with store and runtime         *)
(* failures, at one instant of the clock.                                  *)
(***************************************************************************)
Init ==
    Start([clients |-> {<<"u1", "10.0.0.1">>, <<"u2", "10.0.0.1">>,
                        <<"u2", LOOPBACK>>},
           threads |-> Threads,
           requests |-> MaxRequests,
           clock |-> MaxTime,
           bodies |-> {TRUE},
           store_faults |-> MaxStoreFaults,
           runtime_faults |-> MaxRuntimeFaults,
           external |-> MaxExternal,
           memory_limit |-> MEM_512M,
           usage |-> QuietUsage,
           captcha_module |-> "ctf_captcha"], TRUE, FALSE)

Next == Requests

Spec == Init /\ [][Next]_vars

(***************************************************************************)
(* SweepSpec: one request at a time, the clock, the expiration sweeper,    *)
(* the stale-port maintenance and workloads that exit by themselves.       *)
(***************************************************************************)
SweepInit ==
    Start([clients |-> {<<"u1", LOOPBACK>>, <<"u2", LOOPBACK>>},
           threads |-> {1},
           requests |-> SweepRequests,
           clock |-> MaxTime,
           bodies |-> {TRUE},
           store_faults |-> MaxStoreFaults,
           runtime_faults |-> MaxRuntimeFaults,
           external |-> MaxExternal,
           memory_limit |-> MEM_512M,
           usage |-> QuietUsage,
           captcha_module |-> "ctf_captcha"], TRUE, FALSE)

SweepNext ==
    \/ Requests
    \/ cleanup_loop(0)
    \/ perform_maintenance(0)
    \/ Tick
    \/ HandleExits

SweepSpec == SweepInit /\ [][SweepNext]_vars

(***************************************************************************)
(* FairSweepSpec: SweepSpec where every thread of the program and the      *)
(* clock keep running.                                                     *)
(***************************************************************************)
FairSweepSpec ==
    /\ SweepSpec
    /\ WF_vars(cleanup_loop(0))
    /\ WF_vars(perform_maintenance(0))
    /\ WF_vars(Requests)
    /\ WF_vars(Tick)

(***************************************************************************)
(* AllocSpec: concurrent calls of allocate_port on the shared pool.        *)
(***************************************************************************)
AllocInit ==
    Start([clients |-> {},
           threads |-> Threads,
           requests |-> AllocRequests,
           clock |-> MaxTime,
           bodies |-> {},
           store_faults |-> MaxStoreFaults,
           runtime_faults |-> 0,
           external |-> 0,
           memory_limit |-> MEM_512M,
           usage |-> QuietUsage,
           captcha_module |-> "ctf_captcha"], TRUE, FALSE)

AllocNext == \E t \in Threads : allocate_port(t)

AllocSpec == AllocInit /\ [][AllocNext]_vars

(***************************************************************************)
(* AdmissionSpec: the checks of /deploy with the CAPTCHA and the quotas    *)
(* on, one request at a time.                                              *)
(***************************************************************************)
AdmissionInit ==
    Start([clients |-> {<<"", "10.0.0.1">>, <<"u1", "10.0.0.1">>,
                        <<"u1", LOOPBACK>>},
           threads |-> {1},
           requests |-> SweepRequests,
           clock |-> MaxTime - 2,
           bodies |-> BOOLEAN,
           store_faults |-> MaxStoreFaults,
           runtime_faults |-> MaxRuntimeFaults,
           external |-> MaxExternal,
           memory_limit |-> MEM_512M,
           usage |-> QuietUsage,
           captcha_module |-> "ctf_captcha"], FALSE, TRUE)

AdmissionNext ==
    \/ \E t \in Threads : deploy_container(t)
    \/ \E t \in Threads : finish(t)
    \/ ExternalBind
    \/ create_captcha
    \/ update_resource_usage
    \/ Tick

AdmissionSpec == AdmissionInit /\ [][AdmissionNext]_vars

(***************************************************************************)
(* ShutdownSpec: requests, the sweeper and the clock while the process is  *)
(* told to stop.                                                           *)
(***************************************************************************)
ShutdownInit ==
    Start([clients |-> {<<"u1", LOOPBACK>>},
           threads |-> {1},
           requests |-> SweepRequests,
           clock |-> MaxTime,
           bodies |-> {TRUE},
           store_faults |-> MaxStoreFaults,
           runtime_faults |-> MaxRuntimeFaults,
           external |-> MaxExternal,
           memory_limit |-> MEM_512M,
           usage |-> QuietUsage,
           captcha_module |-> "ctf_captcha"], TRUE, FALSE)

ShutdownNext ==
    \/ Requests
    \/ cleanup_loop(0)
    \/ cleanup_all_resources
    \/ Tick

ShutdownSpec == ShutdownInit /\ [][ShutdownNext]_vars

(***************************************************************************)
(* RetrySpec: deploys of two owners, one at a time, while processes        *)
(* outside the deployer bind ports of the range.                           *)
(***************************************************************************)
RetryInit ==
    Start([clients |-> {<<"u1", LOOPBACK>>, <<"u2", LOOPBACK>>},
           threads |-> {1},
           requests |-> SweepRequests,
           clock |-> 0,
           bodies |-> {TRUE},
           store_faults |-> MaxStoreFaults,
           runtime_faults |-> MaxRuntimeFaults,
           external |-> RetryExternal,
           memory_limit |-> MEM_512M,
           usage |-> QuietUsage,
           captcha_module |-> "ctf_captcha"], TRUE, FALSE)

RetryNext ==
    \/ \E t \in Threads : deploy_container(t)
    \/ \E t \in Threads : finish(t)
    \/ ExternalBind

RetrySpec == RetryInit /\ [][RetryNext]_vars

(***************************************************************************)
(* DestroySpec: one owner deploys and stops while the expiration sweeper   *)
(* runs and the clock advances.                                            *)
(***************************************************************************)
(***************************************************************************)
(* Startup (app.py, __main__) against the store a previous run left: the   *)
(* main thread is at init_db, then at the initial perform_maintenance,     *)
(* then the application runs.                                              *)
(***************************************************************************)
\* init_db: the rows of the range are inserted when port_allocations has no
\* row; the table is committed.
init_db ==
    /\ shutdown_pc = "init_db"
    /\ port_allocations' = IF DOMAIN port_allocations = {}
                           THEN [p \in PORT_RANGE |-> FreeRow]
                           ELSE port_allocations
    /\ shutdown_pc' = "initial_maintenance"
    /\ UNCHANGED <<now, containers, ip_requests, runtime_vars, fault_vars,
                   other_vars, pc, req, resp, requests, sweep_vars, stale_list,
                   shutdown_list, shutdown_pass>>

\* perform_maintenance() of __main__: the SELECT of
\* cleanup_stale_port_allocations; an exception is logged.
initial_maintenance_scan ==
    /\ shutdown_pc = "initial_maintenance"
    /\ \/ /\ UNCHANGED store_faults
          /\ stale_list' = stale_ports(now - STALE_PORT_MAX_AGE)
          /\ shutdown_pc' = IF stale_list' = {} THEN "running" ELSE "initial_release"
       \/ /\ StoreCanFail /\ StoreFails
          /\ UNCHANGED stale_list
          /\ shutdown_pc' = "running"
    /\ UNCHANGED <<now, store_vars, runtime_vars, runtime_faults, other_vars,
                   pc, req, resp, requests, sweep_vars, shutdown_list,
                   shutdown_pass>>

\* ... and its loop: release_port(port) for each port found.
initial_maintenance_release ==
    /\ shutdown_pc = "initial_release"
    /\ \E p \in stale_list :
          /\ stale_list' = stale_list \ {p}
          /\ shutdown_pc' = IF stale_list' = {} THEN "running" ELSE "initial_release"
          /\ \/ /\ UNCHANGED store_faults
                /\ port_allocations' = MarkReleased(port_allocations, p)
             \/ /\ StoreCanFail /\ StoreFails
                /\ UNCHANGED port_allocations
    /\ UNCHANGED <<now, containers, ip_requests, runtime_vars, runtime_faults,
                   other_vars, pc, req, resp, requests, sweep_vars, shutdown_list,
                   shutdown_pass>>

\* What a run may leave of a port: a free row, or a row allocated at time a
\* with holder NULL, with or without the row of a lease that lasts LEAVE_TIME
\* from a.  A slot is <<row, lease or NULL>>.
LeftSlots(p) ==
    {<<FreeRow, NULL>>} \cup
    {<<[allocated |-> TRUE, container_id |-> NULL, allocated_time |-> a], l>> :
        a \in 1 .. BootTime,
        l \in {NULL, p - START_RANGE + 1}}

LeftLease(p, slot) ==
    [id |-> slot[2], port |-> p, start_time |-> slot[1].allocated_time,
     expiration_time |-> slot[1].allocated_time + LEAVE_TIME,
     user_uuid |-> IF slot[2] = 1 THEN "u1" ELSE "u2", ip_address |-> LOOPBACK]

\* The process starts at BootTime on a store without rows of ports (the
\* first start) or on one a previous run populated; the containers of the
\* leases run.
RestartInit ==
    /\ \E left \in [PORT_RANGE -> UNION {LeftSlots(p) : p \in PORT_RANGE}] \cup {<<>>} :
          /\ \A p \in DOMAIN left : left[p] \in LeftSlots(p)
          /\ port_allocations = [p \in DOMAIN left |-> left[p][1]]
          /\ containers = {LeftLease(p, left[p]) : p \in {q \in DOMAIN left : left[q][2] # NULL}}
          /\ handles = [h \in {left[p][2] : p \in {q \in DOMAIN left : left[q][2] # NULL}} |->
                          [port |-> START_RANGE + h - 1, state |-> "running"]]
    /\ now = BootTime
    /\ ip_requests = {}
    /\ ext_bound = {}
    /\ next_id = MaxPorts + 1
    /\ store_faults = 0
    /\ runtime_faults = 0
    /\ captcha_cache = <<>>
    /\ next_captcha = 1
    /\ bypass_captcha = TRUE
    /\ enable_resource_quotas = FALSE
    /\ resource_usage = [containers |-> 0, cpu |-> 0, memory |-> 0, last_updated |-> 0]
    /\ pg_pool = [pool |-> [c \in Conns |-> c], used |-> {}]
    /\ connections = [c \in Conns |-> IdleConn]
    /\ scenario = [clients |-> {}, threads |-> {}, requests |-> 0, clock |-> 0,
                   bodies |-> {}, store_faults |-> MaxStoreFaults,
                   runtime_faults |-> 0, external |-> 0,
                   memory_limit |-> MEM_512M, usage |-> QuietUsage,
                   captcha_module |-> "ctf_captcha"]
    /\ pc = [t \in Threads |-> "idle"]
    /\ req = [t \in Threads |-> NoReq]
    /\ resp = [t \in Threads |-> "none"]
    /\ requests = 0
    /\ sweep_pc = "wait"
    /\ sweep_list = <<>>
    /\ stale_list = {}
    /\ shutdown_pc = "init_db"
    /\ shutdown_list = <<>>
    /\ shutdown_pass = 0

RestartNext ==
    \/ init_db
    \/ initial_maintenance_scan
    \/ initial_maintenance_release

RestartSpec == RestartInit /\ [][RestartNext]_vars

\* The rate limit alone: one worker, owners behind the loopback addresses
\* 127.0.0.1 and 127.0.0.2 and behind a remote address.
RateInit ==
    Start([clients |-> {<<"u1", LOOPBACK>>, <<"u2", LOOPBACK>>,
                        <<"u1", "127.0.0.2">>, <<"u2", "127.0.0.2">>,
                        <<"u1", "10.0.0.1">>, <<"u2", "10.0.0.1">>},
           threads |-> {1},
           requests |-> SweepRequests,
           clock |-> 0,
           bodies |-> {TRUE},
           store_faults |-> MaxStoreFaults,
           runtime_faults |-> MaxRuntimeFaults,
           external |-> MaxExternal,
           memory_limit |-> MEM_512M,
           usage |-> QuietUsage,
           captcha_module |-> "ctf_captcha"], TRUE, FALSE)

RateSpec == RateInit /\ [][RetryNext]_vars

\* The slot table under one caller that allocates, keeps or gives back, and
\* releases ports, one call after the other.
PortInit ==
    Start([clients |-> {},
           threads |-> {1},
           requests |-> PortRequests,
           clock |-> 0,
           bodies |-> {},
           store_faults |-> MaxStoreFaults,
           runtime_faults |-> 0,
           external |-> 0,
           memory_limit |-> MEM_512M,
           usage |-> QuietUsage,
           captcha_module |-> "ctf_captcha"], TRUE, FALSE)

PortNext ==
    \/ \E t \in Threads : allocate_port(t)
    \/ \E t \in Threads : release_port(t)
    \/ \E t \in Threads : finish(t)

PortSpec == PortInit /\ [][PortNext]_vars

\* The statements of the store alone, with up to MaxQueryFaults failed
\* attempts.
QueryInit ==
    Start([clients |-> {<<"u1", LOOPBACK>>},
           threads |-> {1},
           requests |-> SweepRequests,
           clock |-> 0,
           bodies |-> {TRUE},
           store_faults |-> MaxQueryFaults,
           runtime_faults |-> 0,
           external |-> 0,
           memory_limit |-> MEM_512M,
           usage |-> QuietUsage,
           captcha_module |-> "ctf_captcha"], TRUE, FALSE)

QueryNext ==
    \/ \E t \in Threads : statement_begin(t)
    \/ \E t \in Threads : execute_query(t)
    \/ \E t \in Threads : execute_insert(t)
    \/ \E t \in Threads : finish(t)

QuerySpec == QueryInit /\ [][QueryNext]_vars

\* The CAPTCHA alone: two workers verify the ids that were issued, with
\* either module, while challenges are created and the clock runs.
CaptchaInit ==
    \E m \in {"ctf_captcha", "captcha"} :
        Start([clients |-> {<<"u1", LOOPBACK>>},
               threads |-> Threads,
               requests |-> MaxRequests,
               clock |-> MaxTime,
               bodies |-> {TRUE},
               store_faults |-> 0,
               runtime_faults |-> 0,
               external |-> 0,
               memory_limit |-> MEM_512M,
               usage |-> QuietUsage,
               captcha_module |-> m], FALSE, FALSE)

CaptchaNext ==
    \/ create_captcha
    \/ captcha_create_captcha
    \/ \E t \in Threads : validate_captcha_call(t)
    \/ \E t \in Threads : finish(t)
    \/ Tick

CaptchaSpec == CaptchaInit /\ [][CaptchaNext]_vars

\* The quota check alone: one worker, three clients, quotas on or off, the
\* memory limit in megabytes or in gigabytes, usage on both sides of the limits.
QuotaInit ==
    \E m \in MemoryLimits, quotas \in BOOLEAN :
        Start([clients |-> {<<"u1", LOOPBACK>>, <<"u2", LOOPBACK>>,
                            <<"u3", LOOPBACK>>},
               threads |-> {1},
               requests |-> MaxRequests,
               clock |-> 0,
               bodies |-> {TRUE},
               store_faults |-> MaxStoreFaults,
               runtime_faults |-> MaxRuntimeFaults,
               external |-> MaxExternal,
               memory_limit |-> m,
               usage |-> QuotaUsage,
               captcha_module |-> "ctf_captcha"], TRUE, quotas)

QuotaNext ==
    \/ \E t \in Threads : deploy_container(t)
    \/ \E t \in Threads : finish(t)
    \/ ExternalBind
    \/ update_resource_usage

QuotaSpec == QuotaInit /\ [][QuotaNext]_vars

DestroyInit ==
    Start([clients |-> {<<"u1", LOOPBACK>>},
           threads |-> {1},
           requests |-> SweepRequests,
           clock |-> MaxTime,
           bodies |-> {TRUE},
           store_faults |-> MaxStoreFaults,
           runtime_faults |-> MaxRuntimeFaults,
           external |-> 0,
           memory_limit |-> MEM_512M,
           usage |-> QuietUsage,
           captcha_module |-> "ctf_captcha"], TRUE, FALSE)

DestroyNext ==
    \/ \E t \in Threads : deploy_container(t)
    \/ \E t \in Threads : stop_container(t)
    \/ \E t \in Threads : finish(t)
    \/ cleanup_loop(0)
    \/ Tick

DestroySpec == DestroyInit /\ [][DestroyNext]_vars

\* The expiration sweep over the leases of two owners, with time enough
\* for leases of different ages to expire together.
ExpiryInit ==
    Start([clients |-> {<<"u1", LOOPBACK>>, <<"u2", LOOPBACK>>},
           threads |-> {1},
           requests |-> SweepRequests,
           clock |-> MaxTime + 1,
           bodies |-> {TRUE},
           store_faults |-> MaxStoreFaults,
           runtime_faults |-> MaxRuntimeFaults,
           external |-> 0,
           memory_limit |-> MEM_512M,
           usage |-> QuietUsage,
           captcha_module |-> "ctf_captcha"], TRUE, FALSE)

ExpirySpec == ExpiryInit /\ [][DestroyNext]_vars

\* ExpirySpec where the sweeper thread and the clock keep running.
FairExpirySpec ==
    /\ ExpirySpec
    /\ WF_vars(cleanup_loop(0))
    /\ WF_vars(Tick)

\* The snapshot between its writers (the monitor thread and the callers
\* that renew it) and the callers of check_resource_availability.
MonitorInit ==
    Start([clients |-> {},
           threads |-> {1},
           requests |-> MaxRequests,
           clock |-> MaxTime,
           bodies |-> {},
           store_faults |-> MaxStoreFaults,
           runtime_faults |-> 0,
           external |-> 0,
           memory_limit |-> MEM_512M,
           usage |-> MonitorUsage,
           captcha_module |-> "ctf_captcha"], TRUE, TRUE)

MonitorNext ==
    \/ \E t \in Threads : check_resource_availability_call(t)
    \/ \E t \in Threads : finish(t)
    \/ update_resource_usage
    \/ Tick

MonitorSpec == MonitorInit /\ [][MonitorNext]_vars

\* Deploys and stops of remote and local clients over more than one rate
\* window, quotas on.
FrameInit ==
    Start([clients |-> {<<"u1", "10.0.0.1">>, <<"u2", "10.0.0.1">>,
                        <<"u1", LOOPBACK>>},
           threads |-> {1},
           requests |-> MaxRequests,
           clock |-> RATE_LIMIT_WINDOW,
           bodies |-> {TRUE},
           store_faults |-> MaxStoreFaults,
           runtime_faults |-> MaxRuntimeFaults,
           external |-> 0,
           memory_limit |-> MEM_512M,
           usage |-> QuotaUsage,
           captcha_module |-> "ctf_captcha"], TRUE, TRUE)

FrameNext ==
    \/ \E t \in Threads : deploy_container(t)
    \/ \E t \in Threads : stop_container(t)
    \/ \E t \in Threads : finish(t)
    \/ Tick

FrameSpec == FrameInit /\ [][FrameNext]_vars

(***************************************************************************)
(* ExtendSpec: one owner deploys and extends twice while the expiration    *)
(* sweeper runs and the clock advances.                                    *)
(***************************************************************************)
ExtendInit ==
    Start([clients |-> {<<"u1", LOOPBACK>>},
           threads |-> {1},
           requests |-> MaxRequests,
           clock |-> MaxTime,
           bodies |-> {TRUE},
           store_faults |-> MaxStoreFaults,
           runtime_faults |-> MaxRuntimeFaults,
           external |-> 0,
           memory_limit |-> MEM_512M,
           usage |-> QuietUsage,
           captcha_module |-> "ctf_captcha"], TRUE, FALSE)

ExtendNext ==
    \/ \E t \in Threads : deploy_container(t)
    \/ \E t \in Threads : extend_container_lifetime(t)
    \/ \E t \in Threads : finish(t)
    \/ cleanup_loop(0)
    \/ Tick

ExtendSpec == ExtendInit /\ [][ExtendNext]_vars

(***************************************************************************)
(* The claims.                                                             *)
(***************************************************************************)
\* A thread answers its request in this step.
Replies(t, kind) == pc[t] # "done" /\ pc'[t] = "done" /\ req'[t].kind = kind

\* C1: under every interleaving of concurrent allocate_port calls, no two
\* calls hold the same port at once: a port returned to one caller is not
\* returned to another before the first caller has released it.
C1_DistinctPorts ==
    \A t1, t2 \in Threads :
        (/\ t1 # t2
         /\ pc[t1] = "done" /\ resp[t1] = "ALLOCATED"
         /\ pc[t2] = "done" /\ resp[t2] = "ALLOCATED")
        => req[t1].port # req[t2].port

\* C2: at every moment the containers table holds at most one row per owner
\* (user_uuid), also when two deploys with the same cookie run concurrently.
C2_OneLeasePerOwner ==
    \A c1, c2 \in containers : c1.user_uuid = c2.user_uuid => c1 = c2

\* C3: for every row of containers exactly one port slot is allocated with
\* container_id (the holder) equal to the row's id.
C3_HolderIsLease ==
    \A c \in containers :
        Cardinality({p \in PORT_RANGE :
                        /\ port_allocations[p].allocated
                        /\ port_allocations[p].container_id = c.id}) = 1

\* C4: no two rows of containers name the same port, under any interleaving
\* of deploy, stop, the expiration sweep, the stale-port sweep and handles
\* that exit by themselves.
C4_DistinctLeasePorts ==
    \A c1, c2 \in containers : c1.port = c2.port => c1 = c2

\* C5: a release by the stale-port sweep never frees a port that a row of
\* containers uses.
C5_StaleSweepSparesLeases ==
    [][(stale_list # {} /\ stale_list' # stale_list) =>
          \A p \in PORT_RANGE :
              (port_allocations[p].allocated /\ ~port_allocations'[p].allocated)
              => ~\E c \in containers : c.port = p]_vars

Expired(i) == \E c \in containers : c.id = i /\ c.expiration_time < now
Extended(i) == \E c \in containers : c.id = i /\ ~(c.expiration_time < now)
Reclaimed(i) == i \notin DOMAIN handles /\ ~\E c \in containers : c.id = i

\* C6: every lease that has expired and is not extended is eventually
\* reclaimed by the expiration sweep: its handle removed and its row deleted,
\* also when a step of a pass fails.
C6_ExpiredReclaimed ==
    \A i \in Ids : Expired(i) ~> (Reclaimed(i) \/ Extended(i))

\* C7: once the graceful shutdown has finished, no handle, no allocated port
\* and no row of containers is left, in-flight deploys included.
C7_ShutdownReclaimsAll ==
    shutdown_pc = "exited" =>
        /\ handles = <<>>
        /\ containers = {}
        /\ \A p \in PORT_RANGE : ~port_allocations[p].allocated

\* The client of request r is over its rate limit.
Over(r) == r.ip # LOOPBACK /\
           request_count(r.ip, now) + active_count(r.ip) >= MAX_CONTAINERS_PER_HOUR
HasLease(r) == \E c \in containers : c.user_uuid = r.user_uuid
Consumed(r, cache) == r.captcha_id \notin DOMAIN cache

\* C8 (as the code has it): /deploy checks the session, then the rate limit,
\* then the body and the CAPTCHA, then the duplicate owner, then the quota.
\* While the store answers, a request of a client over its limit is answered
\* RATE_LIMITED and leaves the CAPTCHA cache as it is, whatever its CAPTCHA
\* answer; each later rejection comes only for a client under its limit, a
\* duplicate only after the CAPTCHA id is consumed, a quota rejection only
\* for an owner without a lease.
C8_RateLimitBeforeCaptcha ==
    [][\A t \in Threads :
          /\ (Replies(t, "deploy") /\ store_faults' = 0) =>
                LET r == req'[t]
                    a == resp'[t]
                IN  /\ (a = "SESSION_ERROR") <=> (r.user_uuid = "")
                    /\ a = "RATE_LIMITED" => Over(r) /\ captcha_cache' = captcha_cache
                    /\ a \in {"INVALID_REQUEST", "CAPTCHA_REQUIRED", "CAPTCHA_INVALID",
                              "DUPLICATE", "QUOTA_EXCEEDED"} => ~Over(r)
                    /\ a = "CAPTCHA_INVALID" => Consumed(r, captcha_cache')
                    /\ a = "DUPLICATE" => Consumed(r, captcha_cache) /\ HasLease(r)
                    /\ a = "QUOTA_EXCEEDED" => Consumed(r, captcha_cache) /\ ~HasLease(r)
          /\ (pc[t] = "rate" /\ pc'[t] # "rate" /\ store_faults' = store_faults
              /\ Over(req[t])) =>
                /\ pc'[t] = "done" /\ resp'[t] = "RATE_LIMITED"
                /\ captcha_cache' = captcha_cache]_vars

\* C8's case: a client over its limit sent a wrong answer to a CAPTCHA that
\* is still cached and was answered RATE_LIMITED.
C8_Witness ==
    \E t \in Threads :
        /\ pc[t] = "done" /\ req[t].kind = "deploy" /\ resp[t] = "RATE_LIMITED"
        /\ store_faults = 0
        /\ req[t].json
        /\ req[t].captcha_id \in DOMAIN captcha_cache
        /\ req[t].captcha_answer # ""
        /\ StripUpper(req[t].captcha_answer) # captcha_cache[req[t].captcha_id].code

\* C8 as stated: the CAPTCHA is checked before the rate limit, so a request
\* answered RATE_LIMITED had a body and a CAPTCHA that was validated and
\* consumed.
C8_CaptchaBeforeRateLimit ==
    [][\A t \in Threads :
          (Replies(t, "deploy") /\ resp'[t] = "RATE_LIMITED") =>
              /\ req'[t].json
              /\ req'[t].captcha_id # NULL
              /\ Consumed(req'[t], captcha_cache')]_vars

\* C9: a lease of a non-loopback client is stored only if, at that moment,
\* the client's rows in containers plus its rate events within the window,
\* not counting the event of this deploy, are fewer than
\* MAX_CONTAINERS_PER_HOUR (in behaviours where the store always answered).
C9_AdmittedUnderLimit ==
    [][\A t \in Threads :
          (Replies(t, "deploy") /\ resp'[t] = "OK" /\ req[t].ip # LOOPBACK
           /\ store_faults' = 0) =>
              active_count(req[t].ip)
              + Cardinality({e \in ip_requests :
                                /\ e[1] = req[t].ip
                                /\ e[2] > now - RATE_LIMIT_WINDOW
                                /\ e # <<req[t].ip, req[t].now_ts>>})
              < MAX_CONTAINERS_PER_HOUR]_vars

\* C10: when the INSERT of the lease fails after the handle was started, the
\* handle is removed and the port is free by the time deploy answers its
\* error, whatever the removal of the handle did.
C10_FailedStoreCleansUp ==
    [][\A t \in Threads :
          (Replies(t, "deploy") /\ resp'[t] = "DB_ERROR") =>
              /\ req[t].id \notin DOMAIN handles'
              /\ ~port_allocations'[req[t].port].allocated]_vars

\* The ports the runtime rejected for request r with "address already in use".
Rejected(r) == r.blocked

\* C11: while the store and the runtime do not fail otherwise, a deploy whose
\* first K-1 ports are rejected with "address already in use" and whose K-th
\* is accepted is answered OK exactly when K <= PORT_ALLOCATION_MAX_ATTEMPTS:
\* an OK comes after fewer than PORT_ALLOCATION_MAX_ATTEMPTS rejections, with
\* every rejected port free and the accepted one allocated; a rejection goes
\* on to the next attempt when attempts are left and is answered
\* PORTS_FAILED when none is.
C11_RetriesWithinAttempts ==
    [][\A t \in Threads :
          (store_faults' = 0 /\ runtime_faults' = 0) =>
            /\ (Replies(t, "deploy") /\ resp'[t] = "OK") =>
                  /\ Cardinality(Rejected(req'[t])) < PORT_ALLOCATION_MAX_ATTEMPTS
                  /\ req'[t].attempt_i = Cardinality(Rejected(req'[t]))
                  /\ \A p \in Rejected(req'[t]) : ~port_allocations'[p].allocated
                  /\ port_allocations'[req'[t].port].allocated
                  /\ req'[t].port \notin Rejected(req'[t])
            /\ (Replies(t, "deploy") /\ resp'[t] = "PORTS_FAILED") =>
                  Cardinality(Rejected(req'[t])) = PORT_ALLOCATION_MAX_ATTEMPTS
            /\ (pc[t] = "start" /\ pc'[t] # "start") =>
                  IF PortBound(req[t].port)
                  THEN pc'[t] = "rel_inuse"
                  ELSE pc'[t] = "record"
            /\ (pc[t] = "rel_inuse" /\ pc'[t] # "rel_inuse") =>
                  IF Cardinality(Rejected(req[t])) + 1 < PORT_ALLOCATION_MAX_ATTEMPTS
                  THEN pc'[t] = "alloc"
                  ELSE pc'[t] = "done" /\ resp'[t] = "PORTS_FAILED"
            /\ (pc[t] = "record" /\ pc'[t] # "record") => pc'[t] = "store"
            /\ (pc[t] = "store" /\ pc'[t] # "store") =>
                  pc'[t] = "done" /\ resp'[t] = "OK"]_vars

\* C11's case: a deploy was answered OK on its last attempt, after
\* PORT_ALLOCATION_MAX_ATTEMPTS - 1 rejected ports.
C11_Witness ==
    \E t \in Threads :
        /\ pc[t] = "done" /\ req[t].kind = "deploy" /\ resp[t] = "OK"
        /\ store_faults = 0 /\ runtime_faults = 0
        /\ Cardinality(Rejected(req[t])) = PORT_ALLOCATION_MAX_ATTEMPTS - 1
        /\ Rejected(req[t]) \subseteq ext_bound

\* Port p is held: allocated, or locked by an allocation about to commit.
Held(pa, cs, p) == pa[p].allocated \/ \E c \in Conns : p \in cs[c].locked

\* C12: with no more concurrent callers than ports, nothing blocked and no
\* store failure, no allocation is refused: a call is answered
\* NONE_AVAILABLE (deploy's NO_PORTS) only when every port of the range is
\* held by another caller.
C12_RefusedOnlyWhenFull ==
    [][\A t \in Threads :
          (/\ Replies(t, "allocate") /\ resp'[t] = "NONE_AVAILABLE"
           /\ req'[t].blocked = {} /\ store_faults' = 0) =>
              \A p \in PORT_RANGE : Held(port_allocations', connections', p)]_vars

\* The stored expiry of lease i in the table rows.
ExpiryOf(rows, i) == (CHOOSE c \in rows : c.id = i).expiration_time

\* C13: no extension is lost: every extend answered with success, issued
\* alone or beside another extend, raises the stored expiration_time of its
\* lease by exactly ADD_TIME, so that N of them raise it by N * ADD_TIME.
C13_EveryExtendAdds ==
    [][\A t \in Threads :
          (/\ Replies(t, "extend") /\ resp'[t] = "EXTENDED"
           /\ \E c \in containers : c.id = req[t].id) =>
              ExpiryOf(containers', req[t].id)
                 = ExpiryOf(containers, req[t].id) + ADD_TIME]_vars

\* Lease i on port p is destroyed: no handle, no row, the port free.
Destroyed(hs, rows, pa, i, p) ==
    /\ i \notin DOMAIN hs
    /\ ~\E c \in rows : c.id = i
    /\ ~pa[p].allocated

StopRemoving == {"s_rm", "s_sel", "s_rel1", "s_del", "s_rel2"}

\* C14: while the store and the runtime answer, the destruction sequence is
\* idempotent, run by /stop and by the expiration sweep one after the other
\* or at once: a step of it on a lease that is already destroyed changes no
\* table row and no handle, each run ends with the lease destroyed, and
\* /stop answers success also when the sweep was first.
C14_DestructionIdempotent ==
    [][(store_faults' = 0 /\ runtime_faults' = 0) =>
          /\ \A t \in Threads :
                /\ (/\ pc[t] \in StopRemoving /\ pc'[t] # pc[t]
                    /\ Destroyed(handles, containers, port_allocations,
                                 req[t].id, req[t].port)) =>
                       UNCHANGED <<store_vars, handles>>
                /\ (pc[t] \in StopRemoving /\ pc'[t] = "done") =>
                       /\ resp'[t] = "STOPPED"
                       /\ Destroyed(handles', containers', port_allocations',
                                    req[t].id, req[t].port)
          /\ (sweep_pc \in {"rm", "db"} /\ sweep_vars' # sweep_vars) =>
                LET h == Head(sweep_list)
                IN  /\ Destroyed(handles, containers, port_allocations, h.id, h.port)
                          => UNCHANGED <<store_vars, handles>>
                    /\ sweep_pc = "db" =>
                          Destroyed(handles', containers', port_allocations',
                                    h.id, h.port)]_vars

\* C14's case: /stop answered success for a lease whose row the sweep had
\* deleted before /stop's own DELETE (its SELECT port found no row).
C14_Witness ==
    \E t \in Threads :
        /\ pc[t] = "done" /\ req[t].kind = "stop" /\ resp[t] = "STOPPED"
        /\ req[t].id # NULL /\ req[t].db_port = NULL
        /\ store_faults = 0 /\ runtime_faults = 0
        /\ Destroyed(handles, containers, port_allocations, req[t].id, req[t].port)

\* The memory a limit string stands for, in MB: <n>M is n MB, <n>G is n GB.
MemoryMB(str) ==
    LET n == float(SubSeq(str, 1, Len(str) - 1))
    IN  IF str[Len(str)] = "G" THEN n * 1024 ELSE n

\* The first limit that current + expected exceeds in a snapshot, or "none".
Exceeded(usage, memory_limit) ==
    IF usage.containers + 1 > MAX_TOTAL_CONTAINERS THEN "containers"
    ELSE IF usage.cpu + CONTAINER_CPU > MAX_TOTAL_CPU_PERCENT THEN "cpu"
    ELSE IF usage.memory + MemoryMB(memory_limit) > MAX_TOTAL_MEMORY_GB * 1024
         THEN "memory"
    ELSE "none"

\* C15: with quotas enabled the quota step of a deploy rejects exactly when
\* current + expected exceeds the limit of containers, of CPU or of memory in
\* the snapshot it consults, and names the first failing dimension in the
\* order containers, cpu, memory; with quotas disabled it always admits.
C15_QuotaDecides ==
    [][\A t \in Threads :
          (pc[t] = "quota" /\ pc'[t] # "quota") =>
              IF enable_resource_quotas
                 /\ Exceeded(resource_usage', scenario.memory_limit) # "none"
              THEN /\ pc'[t] = "done"
                   /\ resp'[t] = "QUOTA_EXCEEDED"
                   /\ req'[t].quota = Exceeded(resource_usage', scenario.memory_limit)
              ELSE pc'[t] = "alloc"]_vars

\* C16: every call of verify leaves its id out of the cache, whatever the
\* answer and however the calls interleave; a call that returns true is the
\* one that took the id out (ids are never issued twice, so at most one call
\* per id returns true), and the id was not older than CAPTCHA_TTL when the
\* call read the clock.
C16_VerifyOneShot ==
    [][\A t \in Threads :
          Replies(t, "verify") =>
              LET cid == req'[t].captcha_id
              IN  /\ cid \notin DOMAIN captcha_cache'
                  /\ resp'[t] = "VERIFY_TRUE" =>
                        /\ cid \in DOMAIN captcha_cache
                        /\ ~(captcha_cache[cid].expires < req'[t].now_ts)]_vars

\* C17: a statement of the store, whichever it is, surfaces an error only
\* after a logical error or after a connection-level error met on the first
\* attempt and on each of 3 retries; a logical error ends the call at once.
C17_TransientRetried ==
    [][\A t \in Threads :
          /\ (Replies(t, "query") /\ resp'[t] = "DB_ERROR") =>
                \/ req'[t].last_error = "IntegrityError"
                \/ /\ req'[t].last_error = "OperationalError"
                   /\ req'[t].tries = 1 + max_retries
          /\ (pc[t] = "execute" /\ req'[t].tries = req[t].tries + 1
              /\ req'[t].last_error = "IntegrityError") =>
                /\ pc'[t] = "done" /\ resp'[t] = "DB_ERROR"]_vars

\* C18: with one caller, the port allocate_port commits is free and not
\* blocked and every lower port of the range is allocated or blocked; the
\* port it returns is allocated; and once the caller has released the port
\* it was given, that port is again the lowest free port outside the blocked
\* set, the one the next allocate returns.
C18_LowestFreeSlot ==
    [][\A t \in Threads :
          /\ (pc[t] = "a_commit" /\ pc'[t] = "a_finally") =>
                LET p == req[t].port
                IN  /\ ~port_allocations[p].allocated
                    /\ p \notin req[t].blocked
                    /\ \A q \in PORT_RANGE :
                          q < p => port_allocations[q].allocated \/ q \in req[t].blocked
                    /\ port_allocations'[p].allocated
          /\ (Replies(t, "allocate") /\ resp'[t] = "ALLOCATED") =>
                /\ port_allocations'[req'[t].port].allocated
                /\ req'[t].port \notin req'[t].blocked
          /\ (pc[t] = "done" /\ req[t].kind = "allocate" /\ resp[t] = "ALLOCATED"
              /\ pc'[t] = "idle" /\ port_allocations' # port_allocations) =>
                LET p == req[t].port
                IN  /\ port_allocations'[p] = FreeRow
                    /\ \A q \in PORT_RANGE :
                          q < p => port_allocations'[q].allocated \/ q \in req[t].blocked]_vars

\* C18's case: the lowest port is taken and nothing is blocked, and the
\* caller was given the next port.
C18_Witness ==
    \E t \in Threads :
        /\ pc[t] = "done" /\ req[t].kind = "allocate" /\ resp[t] = "ALLOCATED"
        /\ req[t].blocked = {}
        /\ port_allocations[START_RANGE].allocated
        /\ req[t].port = START_RANGE + 1

\* C19: a call of release_port that meets no store failure reports success
\* and leaves the slot of its port free with holder and time cleared and
\* every other slot as it was; on a slot that is free already it changes
\* nothing, so a second release leaves what the first one left.
C19_ReleaseIdempotent ==
    [][\A t \in Threads :
          (pc[t] = "r_update" /\ pc'[t] = "done" /\ store_faults' = store_faults) =>
              LET p == req[t].port
              IN  /\ resp'[t] = "RELEASED"
                  /\ port_allocations'[p] =
                        [allocated |-> FALSE, container_id |-> NULL,
                         allocated_time |-> NULL]
                  /\ \A q \in PORT_RANGE \ {p} :
                        port_allocations'[q] = port_allocations[q]
                  /\ ~port_allocations[p].allocated =>
                        port_allocations' = port_allocations]_vars

\* C19's case: the first call of the behaviour released a port of the
\* table, where every slot is free, and reported success.
C19_Witness ==
    \E t \in Threads :
        /\ pc[t] = "done" /\ req[t].kind = "release" /\ resp[t] = "RELEASED"
        /\ requests = 1
        /\ req[t].port \in PORT_RANGE
        /\ port_allocations[req[t].port] = FreeRow

\* C20: no step of the startup changes a slot of a table that has rows:
\* state, holder and time of every port stay as the previous run left them,
\* until the application runs.
C20_StartupKeepsSlots ==
    [][(shutdown_pc \in {"init_db", "initial_maintenance", "initial_release"}
        /\ DOMAIN port_allocations # {}) =>
            port_allocations' = port_allocations]_vars

\* The answers of /deploy to a request that passed admission (session, rate
\* limit, CAPTCHA, duplicate owner, quota).
AdmittedReplies == {"OK", "NO_PORTS", "PORTS_FAILED", "DOCKER_ERROR", "DB_ERROR"}

\* C21: while the store answers, a deploy request that passed admission has
\* recorded its rate event by the time it is answered, whatever the answer,
\* and no step of a deploy records more than one event.
C21_OneEventPerAdmission ==
    [][\A t \in Threads :
          /\ (Replies(t, "deploy") /\ resp'[t] \in AdmittedReplies
              /\ store_faults' = 0) =>
                /\ req'[t].now_ts # NULL
                /\ <<req'[t].ip, req'[t].now_ts>> \in ip_requests'
          /\ (pc[t] \in DeployPcs \cup {"record", "store"} /\ pc'[t] # pc[t]) =>
                Cardinality(ip_requests' \ ip_requests) <= 1]_vars

\* The client addresses of the loopback network 127.0.0.0/8.
LoopbackAddresses == {"127.0.0.1", "127.0.0.2"}

\* C22: no deploy of a loopback client address is answered RATE_LIMITED,
\* whatever is recorded for the address; and, while the store answers, the
\* rate-limit step of a client of any other address rejects exactly when
\* its events within the window plus its leases reach the limit.
C22_LoopbackBypass ==
    [][\A t \in Threads :
          /\ (Replies(t, "deploy") /\ resp'[t] = "RATE_LIMITED") =>
                req'[t].ip \notin LoopbackAddresses
          /\ (pc[t] = "rate" /\ pc'[t] # "rate" /\ store_faults' = store_faults
              /\ req[t].ip \notin LoopbackAddresses) =>
                ((pc'[t] = "done" /\ resp'[t] = "RATE_LIMITED") <=>
                 (request_count(req[t].ip, now) + active_count(req[t].ip)
                    >= MAX_CONTAINERS_PER_HOUR))]_vars

\* A reserved slot older than STALE_PORT_MAX_AGE that no lease uses.
Orphaned(p) ==
    /\ port_allocations[p].allocated
    /\ port_allocations[p].allocated_time < now - STALE_PORT_MAX_AGE
    /\ ~\E c \in containers :
          c.port = p \/ (port_allocations[p].container_id # NULL
                         /\ port_allocations[p].container_id = c.id)

\* C23: a pass of the stale-port sweep lists every reserved slot older than
\* STALE_PORT_MAX_AGE that no lease uses, and each release of the pass
\* that reaches the store leaves its slot free; the passes recur as long as
\* the process runs, so that every such slot is eventually free or taken by
\* a lease, also after a failed release.
C23_OrphanedSlotsSwept ==
    /\ [][/\ (stale_list = {} /\ stale_list' # {}) =>
                (\A p \in PORT_RANGE : Orphaned(p) => p \in stale_list')
          /\ (stale_list # {} /\ stale_list' # stale_list
              /\ store_faults' = store_faults) =>
                \A p \in stale_list \ stale_list' :
                    port_allocations'[p] =
                        [allocated |-> FALSE, container_id |-> NULL,
                         allocated_time |-> NULL]]_vars
    /\ \A p \in PORT_RANGE : Orphaned(p) ~> ~Orphaned(p)

\* A pass has listed an orphaned slot after the one store failure that
\* left it behind.
C23_Witness ==
    /\ store_faults = MaxStoreFaults
    /\ \E p \in stale_list : Orphaned(p)

\* A handle of the project without a row of containers.
OrphanHandle(i) == i \in DOMAIN handles /\ ~\E c \in containers : c.id = i

\* C24: every handle that carries the project prefix and has no row of
\* containers (its deploy never stored the row, or its removal failed and the
\* row was deleted) eventually is removed by the periodic sweep, or gets its
\* row when the deploy that created it is still running.
C24_OrphanHandleRemoved ==
    \A i \in Ids : OrphanHandle(i) ~> ~OrphanHandle(i)

\* C25: owner stop, the expiration sweep and the shutdown each attempt, for
\* a lease, the runtime removal, then the port release, then the delete of
\* the row: while nothing has failed, a row that is deleted belongs to a
\* lease whose handle is already gone and whose port slot is already free;
\* and a removal or a release that fails is still followed by the next
\* step of its path.
C25_DestructionOrder ==
    [][/\ \A c \in containers :
             (/\ ~\E d \in containers' : d.id = c.id
              /\ store_faults' = 0 /\ runtime_faults' = 0) =>
                /\ c.id \notin DOMAIN handles'
                /\ ~port_allocations'[c.port].allocated
       /\ \A t \in Threads :
             /\ (pc[t] = "s_rm" /\ pc'[t] \notin {"s_rm", "killed"}) =>
                   pc'[t] = "s_sel"
             /\ (pc[t] = "s_rel1" /\ pc'[t] \notin {"s_rel1", "killed"}) =>
                   pc'[t] = "s_del"
       /\ (sweep_pc = "rm" /\ sweep_pc' \notin {"rm", "killed"}) =>
             sweep_pc' = "db"
       /\ (shutdown_pc = "rm" /\ shutdown_pc' # "rm") => shutdown_pc' = "rel"
       /\ (shutdown_pc = "rel" /\ shutdown_pc' # "rel") =>
             shutdown_pc' \in {"rm", "delete"}]_vars

\* C26: the scan of an expiration-sweep pass lists exactly the leases with
\* expiration_time strictly below the scan time, each once, in
\* non-decreasing expiration_time; the pass then destroys the listed leases
\* from the head of the list, one per step, deletes no other row, and ends
\* only when the list is used up.
C26_PassTakesExpired ==
    [][/\ (sweep_pc = "wait" /\ sweep_pc' = "rm") =>
             /\ {sweep_list'[i].id : i \in DOMAIN sweep_list'} =
                    {c.id : c \in {d \in containers : d.expiration_time < now}}
             /\ \A i, j \in DOMAIN sweep_list' : i < j =>
                    /\ sweep_list'[i].id # sweep_list'[j].id
                    /\ ExpiryOf(containers, sweep_list'[i].id)
                          <= ExpiryOf(containers, sweep_list'[j].id)
       /\ (sweep_pc = "db" /\ sweep_pc' # "db") =>
             /\ sweep_list' = Tail(sweep_list)
             /\ (sweep_pc' = "wait") <=> (Tail(sweep_list) = <<>>)
             /\ store_faults' = store_faults =>
                    containers' = {c \in containers : c.id # Head(sweep_list).id}
       /\ (sweep_pc' # sweep_pc \/ sweep_list' # sweep_list) =>
             \A c \in containers :
                 (~\E d \in containers' : d.id = c.id) =>
                    (sweep_list # <<>> /\ c.id = Head(sweep_list).id)]_vars

\* A pass has listed two leases of different expiration_time, the older
\* first.
C26_Witness ==
    /\ sweep_pc = "rm"
    /\ Len(sweep_list) = 2
    /\ \A i \in 1 .. 2 : \E c \in containers : c.id = sweep_list[i].id
    /\ ExpiryOf(containers, sweep_list[1].id)
          < ExpiryOf(containers, sweep_list[2].id)

\* C27: a failure while a pass destroys a lease does not stop the pass: a
\* failed runtime removal is followed by the database part of the same
\* lease, a failed database part by the next lease of the list, the sweeper
\* is never left in a state other than waiting or working on its list, every
\* pass ends, and a lease whose row a failure left behind is taken again by
\* a later pass.
C27_FailureKeepsSweeping ==
    /\ [][/\ (sweep_pc = "rm" /\ runtime_faults' # runtime_faults
               /\ sweep_pc' # sweep_pc) =>
                (sweep_pc' = "db" /\ sweep_list' = sweep_list)
          /\ (sweep_pc = "db" /\ store_faults' # store_faults
              /\ sweep_pc' # sweep_pc) =>
                /\ sweep_list' = Tail(sweep_list)
                /\ sweep_pc' = IF Tail(sweep_list) = <<>> THEN "wait" ELSE "rm"
          /\ sweep_pc' \in {"wait", "rm", "db"}]_vars
    /\ (sweep_pc # "wait") ~> (sweep_pc = "wait")
    /\ \A i \in Ids : Expired(i) ~> ~Expired(i)

\* The database part failed for the first lease of a pass, whose row is
\* still stored, and the pass is working on the second.
C27_Witness ==
    /\ sweep_pc = "rm"
    /\ Len(sweep_list) = 1
    /\ store_faults = MaxStoreFaults
    /\ \E c \in containers : c.id = sweep_list[1].id
    /\ \E i \in Ids :
          /\ Expired(i) /\ i # sweep_list[1].id
          /\ ExpiryOf(containers, i) <= ExpiryOf(containers, sweep_list[1].id)

\* C28: once the termination signal has been received no row of containers
\* is stored for a new lease, and whenever the shutdown path is removing
\* handles, releasing ports or deleting rows, the stop signal of the
\* expiration sweeper has already been set.
C28_SignalStopsLeasing ==
    [][/\ (shutdown_pc # "running") =>
             \A c \in containers' : \E d \in containers : d.id = c.id
       /\ (shutdown_pc' \in {"rm", "rel", "delete"}) => StopSignal']_vars

\* C29: with quotas on, every quota decision of a deploy (go on to the
\* allocation, or QUOTA_EXCEEDED) is taken from a snapshot that is not older
\* than 3 * RESOURCE_CHECK_INTERVAL at that moment, a snapshot found older
\* having been refreshed first.
C29_DecisionOnFreshSnapshot ==
    [][\A t \in Threads :
          (/\ enable_resource_quotas
           /\ pc[t] = "quota"
           /\ pc'[t] = "alloc" \/ (pc'[t] = "done" /\ resp'[t] = "QUOTA_EXCEEDED")) =>
             ~(resource_usage'.last_updated < now - RESOURCE_CHECK_INTERVAL * 3)]_vars

\* C30: a call of check_resource_availability that has read the lease
\* count, the CPU and the memory of the snapshot has read the values of one
\* sample: the CPU and the memory it compared were published together (or
\* are both the initial zeros), also when an update runs during the call.
C30_ReaderSeesOneSample ==
    [][\A t \in Threads :
          (Replies(t, "check") /\ req'[t].usage.memory # -1) =>
             <<req'[t].usage.cpu, req'[t].usage.memory>>
                \in scenario.usage \cup {<<0, 0>>}]_vars

\* The admission checks of /deploy.
AdmissionPcs == {"rate", "captcha", "dup", "quota"}

\* C31 (as the code has it): no step of a deploy up to and including its
\* admission checks, hence no rejected deploy, changes a row of containers
\* or a port slot; of the rate events it may only delete those that are not
\* within the rate window any more.
C31_RejectedOnlyPrunes ==
    [][\A t \in Threads :
          (pc[t] \in AdmissionPcs /\ pc'[t] \notin {pc[t], "killed"}) =>
             /\ containers' = containers
             /\ port_allocations' = port_allocations
             /\ ip_requests' \subseteq ip_requests
             /\ \A e \in ip_requests \ ip_requests' :
                   ~(e[2] > now - RATE_LIMIT_WINDOW)]_vars

\* A remote client that holds a lease was answered RATE_LIMITED, and the
\* event of its lease has been pruned.
C31_Witness ==
    \E t \in Threads :
        /\ pc[t] = "done" /\ req[t].kind = "deploy" /\ resp[t] = "RATE_LIMITED"
        /\ store_faults = 0
        /\ \E c \in containers : c.ip_address = req[t].ip
        /\ ip_requests = {}

\* C31 as stated: a deploy rejected by an admission check leaves the rows of
\* containers, the port slots and the rate events as they were.
C31_RejectedLeavesStore ==
    [][\A t \in Threads :
          (pc[t] \in AdmissionPcs /\ pc'[t] = "done") =>
             /\ containers' = containers
             /\ port_allocations' = port_allocations
             /\ ip_requests' = ip_requests]_vars

\* C32: whenever create_and_start_container fails, no handle of the call
\* is left in the runtime when the error reaches /deploy.
C32_FailedStartLeavesNoHandle ==
    [][\A t \in Threads :
          (pc[t] = "start" /\ pc'[t] \notin {"start", "record", "killed"}) =>
             handles' = handles]_vars

\* C33: a call of allocate_port makes at most PORT_ALLOCATION_MAX_ATTEMPTS
\* passes and ends by returning a port or None (NONE_AVAILABLE); a deploy
\* makes at most PORT_ALLOCATION_MAX_ATTEMPTS attempts of
\* create_and_start_container.
C33_BoundedAttempts ==
    [][\A t \in Threads :
          /\ req'[t].kind = "allocate" =>
                req'[t].attempt <= PORT_ALLOCATION_MAX_ATTEMPTS
          /\ Replies(t, "allocate") =>
                resp'[t] \in {"ALLOCATED", "NONE_AVAILABLE"}
          /\ req'[t].kind = "deploy" =>
                req'[t].attempt_i <= PORT_ALLOCATION_MAX_ATTEMPTS
          /\ (req[t].kind = "deploy" /\ pc'[t] = "start" /\ pc[t] # "start") =>
                req[t].attempt_i < PORT_ALLOCATION_MAX_ATTEMPTS]_vars

\* The destruction of lease i is in progress: a /stop that has looked the
\* lease up, the expiration sweep at the head of its list, or the shutdown
\* walking the rows it has read.
Destroying(i) ==
    \/ \E t \in Threads :
          /\ pc[t] \in {"s_rm", "s_sel", "s_rel1", "s_del", "s_rel2"}
          /\ req[t].id = i
    \/ /\ sweep_pc \in {"rm", "db"}
       /\ sweep_list # <<>>
       /\ Head(sweep_list).id = i
    \/ shutdown_pc \in {"rm", "rel", "delete"}

\* C34: the port of every row of containers is allocated, except while the
\* destruction of that very lease is in progress.
C34_LeasePortReserved ==
    \A c \in containers :
        port_allocations[c.port].allocated \/ Destroying(c.id)

\* The ports request r allocated: the one it holds and the ones it gave up.
TakenBy(r) == ({r.port} \cup r.blocked) \cap PORT_RANGE

\* C35: when deploy answers a failure, none of the ports the call allocated
\* is still allocated, whatever failed.
C35_FailedDeployHoldsNoPort ==
    [][\A t \in Threads :
          (Replies(t, "deploy") /\ resp'[t] # "OK") =>
              \A p \in TakenBy(req'[t]) : ~port_allocations'[p].allocated]_vars

\* C36: the expiration sweep removes neither the handle nor the row of a
\* lease whose stored expiration_time lies in the future, also when /extend
\* wrote that expiration_time after the scan of the pass had listed the
\* lease.
C36_ExtendedLeaseSpared ==
    [][(/\ sweep_pc \in {"rm", "db"}
        /\ sweep_list # <<>>
        /\ sweep_pc' # sweep_pc \/ sweep_list' # sweep_list) =>
          \A c \in containers :
              (c.id = Head(sweep_list).id /\ now < c.expiration_time) =>
                  /\ c \in containers'
                  /\ c.id \in DOMAIN handles => c.id \in DOMAIN handles']_vars

\* C37: with ENABLE_RESOURCE_QUOTAS on, containers never holds more than
\* MAX_TOTAL_CONTAINERS rows, however deploys and refreshes of the snapshot
\* interleave.
C37_RowsWithinQuota ==
    enable_resource_quotas => Cardinality(containers) <= MAX_TOTAL_CONTAINERS

\* C38: when /stop answers success, no row of the requesting owner is left
\* in containers and the port of the stopped lease is free, also when a
\* store operation of the destruction failed.
C38_StoppedMeansGone ==
    [][\A t \in Threads :
          (Replies(t, "stop") /\ resp'[t] = "STOPPED") =>
              /\ ~\E c \in containers' : c.user_uuid = req'[t].user_uuid
              /\ ~port_allocations'[req'[t].port].allocated]_vars

\* C39: a deploy whose rate-limit check meets a store error is not
\* rate-limited: it goes on to the CAPTCHA step, and the failed check leaves
\* ip_requests and containers as they were.
C39_RateCheckFailsOpen ==
    [][\A t \in Threads :
          (/\ pc[t] = "rate"
           /\ pc'[t] # "rate"
           /\ store_faults' = store_faults + 1) =>
              /\ pc'[t] = "captcha"
              /\ resp'[t] = resp[t]
              /\ ip_requests' = ip_requests
              /\ containers' = containers]_vars

\* A request whose address has reached the limit stands at the CAPTCHA step:
\* its check met the store error.
C39_Witness ==
    \E t \in Threads :
        /\ pc[t] = "captcha"
        /\ req[t].ip # LOOPBACK
        /\ store_faults = 1
        /\ check_ip_rate_limit(req[t].ip, now)

\* Thread u is inside a pass of allocate_port on connection c, which it took
\* from the pool in this pass.
InUseBy(u, c) ==
    /\ pc[u] \in {"a_auto", "a_select", "a_norow", "a_update", "a_commit"}
    /\ req[u].conn = c

\* C40: the except and finally clauses of allocate_port and its
\* release_connection act only on a connection no other caller is using, and
\* a connection is returned only while the pool has it as handed out (once
\* per acquisition).
C40_ConnectionOfHolder ==
    [][\A t \in Threads :
          (/\ pc[t] \in {"a_except", "a_finally", "a_release"}
           /\ pc'[t] # pc[t]
           /\ req[t].conn # NULL) =>
              /\ \A u \in Threads \ {t} : ~InUseBy(u, req[t].conn)
              /\ pc[t] = "a_release" => req[t].conn \in pg_pool.used]_vars

====
